---- MODULE Spec2Model ----
\* Model of the local-nginx-ingress controller: the Docker provider (watcher and
\* reconcile pass), the config renderer and the nginx process manager.
EXTENDS Integers, Sequences, FiniteSets, TLC

\* ---------------------------------------------------------------- bounds

\* Number of container starts and stops the runtime performs.
MaxOps == 3

\* Number of failures the environment injects (a failed runtime call, file
\* operation, configuration test or reload command, a child exit, a stream error).
MaxFaults == 4

\* Longest container snapshot given to the renderer in SpecRender.
MaxSnapshot == 3

\* errorHandler.SetRetryConfig(3, 5*time.Second) in NewProvider.
RetryAttempts == 3

\* NewCircuitBreaker(3, 30*time.Second) in NewErrorHandler.
FailureThreshold == 3

\* Calls of Manager.Start, Reload and Stop made by the callers of the manager.
MaxCalls == 4

\* Breaker runs: the failure thresholds and retryAttempts tried, and the calls
\* of Execute and HandleWithRetry made.
MaxThreshold == 3
MaxRetry == 2
MaxExec == 5

\* Probe results delivered to the health monitor.
MaxProbes == 7

\* Calls of the snippet loaders made in SpecSnippet.
MaxLoads == 3

\* Container starts and failed calls in SpecPass.
MaxStarts == 2
PassFaults == 1

\* checkComponent: ErrorCount >= 2 is Degraded, ErrorCount >= 5 is Unhealthy.
DegradedAt == 2
UnhealthyAt == 5

\* Locations handed to one run of the sort.
MaxLocations == 3

\* Calls of HandleWithRetry in a handler run.
MaxRuns == 4

\* Requests of GET /health/detailed.
MaxRequests == 2

\* Times the template file appears or disappears in a comparison run.
MaxTemplateChanges == 2

\* ---------------------------------------------------------------- fixture

\* The containers of the fixture.  "web", "api", "docs" and "shop" carry
\* nginx.ingress labels (enabled and valid; "web" and "docs" share a host);
\* "db" carries none.  "blog" names a configuration snippet and "php" is a
\* FastCGI backend with a parameter file; both are valid.  "bad" has the port
\* label 99999 and "rel" the path label "api", without the leading slash.
\* "fpm" and "cgi" are FastCGI backends whose backend-protocol label is
\* written "fcgi" and "Fcgi".
Fixture == {"web", "api", "docs", "shop", "db", "blog", "php", "bad", "rel",
            "fpm", "cgi"}

\* The containers the runtime starts and stops.
Containers == {"web", "db"}

Threads == {"start", "loop"}

\* The goroutines that call the Manager: main (Start, Stop) and the goroutine
\* that runs the on-change callback (Reload); the type lets either call any.
Callers == {"main", "hook"}

\* In-container paths, as the pieces the path checks look at.
LocationConf == <<"/", "app", "/", "config", "/", "location", ".conf">>
FastcgiConf  == <<"/", "app", "/", "config", "/", "fastcgi", ".conf">>

\* The labels of an enabled route with the given host, priority and path and
\* nothing else set.  A label that is not set is "" or <<>>; the port label is
\* its decimal digits.
Route(host, priority, path) ==
    [labelled |-> TRUE, enable |-> "true", host |-> host, priority |-> priority,
     path |-> path, port |-> <<>>, protocol |-> "", snippet |-> <<>>,
     backend |-> "", paramsFile |-> <<>>]

Labels ==
    [c \in Fixture |->
        CASE c = "web"  -> Route("a.local", 100, "/")
          [] c = "api"  -> Route("b.local", 200, "/api")
          [] c = "docs" -> Route("a.local", 100, "/docs")
          [] c = "shop" -> Route("c.local", 100, "/")
          [] c = "blog" -> [Route("d.local", 100, "/") EXCEPT !.snippet = LocationConf]
          [] c = "php"  -> [Route("e.local", 100, "/") EXCEPT !.backend = "FCGI",
                                                              !.paramsFile = FastcgiConf]
          [] c = "bad"  -> [Route("f.local", 100, "/") EXCEPT !.port = <<9, 9, 9, 9, 9>>]
          [] c = "rel"  -> Route("g.local", 100, "api")
          [] c = "fpm"  -> [Route("h.local", 100, "/") EXCEPT !.backend = "fcgi"]
          [] c = "cgi"  -> [Route("i.local", 100, "/") EXCEPT !.backend = "Fcgi"]
          [] OTHER      -> [Route("", 100, "/") EXCEPT !.labelled = FALSE, !.enable = ""]]

\* The order in which the runtime lists containers.
Rank ==
    [c \in Fixture |->
        CASE c = "web" -> 1 [] c = "api" -> 2 [] c = "docs" -> 3 [] c = "shop" -> 4
          [] c = "db" -> 5 [] c = "blog" -> 6 [] c = "php" -> 7 [] c = "bad" -> 8
          [] c = "rel" -> 9 [] c = "fpm" -> 10 [] OTHER -> 11]

\* ---------------------------------------------------------------- helpers

Range(s) == {s[i] : i \in 1..Len(s)}

\* All orders in which the elements of S can be visited (Go map iteration).
Perms(S) ==
    {p \in [1..Cardinality(S) -> S] : \A i, j \in 1..Cardinality(S) : p[i] = p[j] => i = j}

\* The elements of S as the sequence the runtime lists them in.
RECURSIVE InRankOrder(_)
InRankOrder(S) ==
    IF S = {} THEN <<>>
    ELSE LET c == CHOOSE x \in S : \A y \in S : Rank[x] <= Rank[y]
         IN  <<c>> \o InRankOrder(S \ {c})

RECURSIVE SelectHost(_, _)
SelectHost(s, host) ==
    IF s = <<>> THEN <<>>
    ELSE (IF Labels[Head(s)].host = host THEN <<Head(s)>> ELSE <<>>) \o SelectHost(Tail(s), host)

RECURSIVE Flatten(_)
Flatten(ss) == IF ss = <<>> THEN <<>> ELSE Head(ss) \o Flatten(Tail(ss))

\* ---------------------------------------------------------------- data.go

hasNginxLabels(c) == Labels[c].labelled

\* parseBool, on the lower-case values of the fixture.
parseBool(value) == value \in {"true", "1", "yes", "on"}

\* strconv.Atoi of a string of decimal digits.
RECURSIVE Atoi(_)
Atoi(digits) ==
    IF digits = <<>> THEN 0
    ELSE 10 * Atoi(SubSeq(digits, 1, Len(digits) - 1)) + digits[Len(digits)]

\* strings.ToUpper, on the backend protocols of the fixture.
ToUpper(x) == IF x \in {"fcgi", "Fcgi"} THEN "FCGI" ELSE x

\* strings.HasPrefix(path, "/"), on the paths of the fixture.
StartsWithSlash(path) == path \in {"/", "/api", "/docs"}

\* ExtractConfig: the ContainerConfig read from the labels of container c, or
\* an error.
ExtractConfig(c) ==
    LET l == Labels[c]
        config == [err |-> FALSE, Enabled |-> TRUE, Host |-> l.host,
                   Port |-> IF l.port = <<>> THEN 80 ELSE Atoi(l.port),
                   Protocol |-> IF l.protocol = "" THEN "http" ELSE l.protocol,
                   Path |-> l.path, Priority |-> l.priority,
                   ConfigurationSnippet |-> l.snippet,
                   FastCGI |-> [Enabled |-> ToUpper(l.backend) = "FCGI",
                                BackendProtocol |-> l.backend,
                                ParamsFile |-> l.paramsFile]]
    IN  IF ~parseBool(l.enable) THEN [config EXCEPT !.Enabled = FALSE]
        ELSE IF l.host = "" THEN [config EXCEPT !.err = TRUE]
        ELSE IF l.port # <<>> /\ ~(Atoi(l.port) > 0 /\ Atoi(l.port) <= 65535)
        THEN [config EXCEPT !.err = TRUE]
        ELSE IF l.protocol \notin {"", "http", "https"} THEN [config EXCEPT !.err = TRUE]
        ELSE config

\* ValidateConfig returns nil.
ValidateConfig(config) ==
    \/ ~config.Enabled
    \/ /\ config.Host # ""
       /\ config.Port > 0 /\ config.Port <= 65535
       /\ config.Protocol \in {"http", "https"}
       /\ config.FastCGI.Enabled => config.FastCGI.BackendProtocol = "FCGI"
       /\ StartsWithSlash(config.Path)

\* An enumeration that yields nothing when a container fails extraction or
\* validation.
MutListContainers(runningNow, failed) ==
    IF \E c \in runningNow :
          hasNginxLabels(c) /\ (ExtractConfig(c).err \/ ~ValidateConfig(ExtractConfig(c)))
    THEN <<>>
    ELSE InRankOrder({c \in runningNow : hasNginxLabels(c) /\ c \notin failed})

\* The result of ListContainers when the list call succeeds and the inspect
\* calls of the containers in `failed` fail: those are skipped with a warning,
\* and so are the containers whose labels fail ExtractConfig or ValidateConfig;
\* a container that is not enabled is skipped silently.
ListContainers(runningNow, failed) ==
    InRankOrder({c \in runningNow :
                    /\ hasNginxLabels(c)
                    /\ c \notin failed
                    /\ ~ExtractConfig(c).err
                    /\ ExtractConfig(c).Enabled
                    /\ ValidateConfig(ExtractConfig(c))})

FilterEnabledContainers(cs) == SelectSeq(cs, LAMBDA c : ExtractConfig(c).Enabled)

\* host -> the containers of that host, in snapshot order.
GroupContainersByHost(cs) ==
    [h \in {Labels[c].host : c \in Range(cs)} |-> SelectHost(cs, h)]

\* ---------------------------------------------------------------- snippet loader

Contains(p, piece) == \E i \in 1..Len(p) : p[i] = piece
HasPrefix(p, q) == Len(p) >= Len(q) /\ SubSeq(p, 1, Len(q)) = q
HasSuffix(p, piece) == p # <<>> /\ p[Len(p)] = piece

\* SnippetManager.validateFilePath returns nil.
validateFilePath(filePath) ==
    /\ ~Contains(filePath, "..")
    /\ ~HasPrefix(filePath, <<"/", "etc", "/">>)
    /\ ~HasPrefix(filePath, <<"/", "var", "/">>)
    /\ HasSuffix(filePath, ".conf") \/ HasSuffix(filePath, ".txt")

\* What a loader call did.  res: "nil" (no path), "ok" or "err"; cacheRead: it
\* looked for the cache file; copied: it called CopyFromContainer.
Loaded(res, cacheRead, copied) == [res |-> res, cacheRead |-> cacheRead, copied |-> copied]

\* A DownloadSnippet that looks for the cache file before it checks the path.
MutDownloadSnippet(filePath, cached, fetchOk) ==
    IF filePath = <<>> THEN Loaded("nil", FALSE, FALSE)
    ELSE IF cached THEN Loaded("ok", TRUE, FALSE)
    ELSE IF ~validateFilePath(filePath) THEN Loaded("err", TRUE, FALSE)
    ELSE Loaded(IF fetchOk THEN "ok" ELSE "err", TRUE, TRUE)

\* SnippetManager.DownloadSnippet.  cached: the cache file of the key exists;
\* fetchOk: the runtime's copy and the extraction succeed.
DownloadSnippet(filePath, cached, fetchOk) ==
    IF filePath = <<>> THEN Loaded("nil", FALSE, FALSE)
    ELSE IF ~validateFilePath(filePath) THEN Loaded("err", FALSE, FALSE)
    ELSE IF cached THEN Loaded("ok", TRUE, FALSE)
    ELSE Loaded(IF fetchOk THEN "ok" ELSE "err", TRUE, TRUE)

\* FastCGIParameterManager.loadParamsFromFile: the path check, then
\* DownloadSnippet and the parse of its content.
loadParamsFromFile(filePath, cached, fetchOk) ==
    IF ~validateFilePath(filePath) THEN Loaded("err", FALSE, FALSE)
    ELSE DownloadSnippet(filePath, cached, fetchOk)

\* SnippetManager.DownloadAllSnippets for a config whose only snippet is the
\* configuration snippet (no container of the fixture names a server snippet).
DownloadAllSnippets(config, cached, fetchOk) ==
    IF config.ConfigurationSnippet # <<>>
    THEN DownloadSnippet(config.ConfigurationSnippet, cached, fetchOk)
    ELSE Loaded("nil", FALSE, FALSE)

\* FastCGIParameterManager.LoadFastCGIParams: label parameters, then the file
\* if one is named, then the defaults.
LoadFastCGIParams(config, cached, fetchOk) ==
    IF config.FastCGI.ParamsFile # <<>>
    THEN loadParamsFromFile(config.FastCGI.ParamsFile, cached, fetchOk)
    ELSE Loaded("ok", FALSE, FALSE)

\* The cache key of a path of container c: the id's first 12 characters and
\* the hash of the path.
CacheKey(c, filePath) == <<c, filePath>>

\* ---------------------------------------------------------------- renderer

NilConfig == [isNil |-> TRUE, Upstreams |-> <<>>, Servers |-> <<>>]

UpstreamName(host, c) == <<"backend", host, c>>

\* The location of container c; `loaded` holds the containers whose
\* configuration snippet was downloaded.
LocationOf(host, c, loaded) ==
    [Path |-> Labels[c].path, Priority |-> Labels[c].priority,
     Upstream |-> UpstreamName(host, c),
     ConfigurationSnippet |-> c \in loaded,
     FastCGI |-> ExtractConfig(c).FastCGI.Enabled]

ServerOf(host, members, loaded) ==
    [ServerName |-> host,
     Locations  |-> [i \in 1..Len(members) |-> LocationOf(host, members[i], loaded)]]

\* GenerateNginxConfig ranges over the hostGroups map; `order` is the order in
\* which that range visits the hosts.
GenerateNginxConfig(cs, order, loaded) ==
    LET groups == GroupContainersByHost(cs)
    IN  [isNil     |-> FALSE,
         Upstreams |-> Flatten([i \in 1..Len(order) |->
                           [j \in 1..Len(groups[order[i]]) |->
                               UpstreamName(order[i], groups[order[i]][j])]]),
         Servers   |-> [i \in 1..Len(order) |->
                           ServerOf(order[i], groups[order[i]], loaded)]]

\* GenerateNginxConfig returns an error: LoadFastCGIParams failed for a FastCGI
\* container of the snapshot (`lost` holds the containers it fails for).
GenerateFails(cs, lost) ==
    \E c \in Range(cs) : ExtractConfig(c).FastCGI.Enabled /\ c \in lost

HostOrders(cs) == Perms(DOMAIN GroupContainersByHost(cs))

\* len(path) of the fixture's paths.
PathLen(p) == CASE p = "/" -> 1 [] p = "/api" -> 4 [] p = "api" -> 3 [] OTHER -> 5

\* A less function that puts the lower priority first.
MutBefore(a, b) ==
    \/ a.Priority < b.Priority
    \/ a.Priority = b.Priority /\ PathLen(a.Path) > PathLen(b.Path)

Before(a, b) ==
    \/ a.Priority > b.Priority
    \/ a.Priority = b.Priority /\ PathLen(a.Path) > PathLen(b.Path)

RECURSIVE sortLocationsByPriority(_)
sortLocationsByPriority(locs) ==
    IF locs = <<>> THEN <<>>
    ELSE LET i == CHOOSE k \in 1..Len(locs) :
                      /\ \A m \in 1..Len(locs) : ~Before(locs[m], locs[k])
                      /\ \A m \in 1..(k-1) : Before(locs[k], locs[m])
             rest == [m \in 1..(Len(locs)-1) |-> IF m < i THEN locs[m] ELSE locs[m+1]]
         IN  <<locs[i]>> \o sortLocationsByPriority(rest)

\* The text the template produces: one upstream block per upstream and one
\* server block per server, in the order of the config's slices.
Template(config) ==
    [i \in 1..Len(config.Upstreams) |-> <<"upstream", config.Upstreams[i]>>]
    \o Flatten([i \in 1..Len(config.Servers) |->
           <<<<"server", config.Servers[i].ServerName>>>>
           \o [j \in 1..Len(config.Servers[i].Locations) |->
                  <<"location", sortLocationsByPriority(config.Servers[i].Locations)[j]>>]])

RenderNginxConfig(config) == Template(config)

\* A comparison that never finds two configs equal.
MutConfigEquals(a, b) == FALSE

\* Provider.configEquals
configEquals(a, b) ==
    IF a.isNil /\ b.isNil THEN TRUE
    ELSE IF a.isNil \/ b.isNil THEN FALSE
    ELSE RenderNginxConfig(a) = RenderNginxConfig(b)

\* ---------------------------------------------------------------- circuit breaker

\* NewCircuitBreaker.  `expired` says that more than the timeout has passed
\* since lastFailureTime.
NewCircuitBreaker(threshold) ==
    [state |-> "Closed", failureCount |-> 0, expired |-> FALSE,
     failureThreshold |-> threshold]

\* CircuitBreaker.Execute, on entry: an Open breaker whose timeout has passed
\* becomes HalfOpen with a failure count of zero.
Admit(b) ==
    IF b.state = "Open" /\ b.expired
    THEN [b EXCEPT !.state = "HalfOpen", !.failureCount = 0]
    ELSE b

\* CircuitBreaker.Execute fails fast, without invoking the operation.
Rejects(b) == Admit(b).state = "Open"

\* CircuitBreaker.Execute after the operation returned an error.
OnFailure(b) ==
    [b EXCEPT !.failureCount = @ + 1,
              !.expired = FALSE,
              !.state = IF b.failureCount + 1 >= b.failureThreshold THEN "Open" ELSE @]

\* CircuitBreaker.Execute after the operation returned nil.
OnSuccess(b) ==
    [b EXCEPT !.state = IF @ = "HalfOpen" THEN "Closed" ELSE @,
              !.failureCount = 0]

\* ---------------------------------------------------------------- files

NoFile == [exists |-> FALSE, whole |-> TRUE, text |-> <<>>]
Whole(text) == [exists |-> TRUE, whole |-> TRUE, text |-> text]
Partial(text) == [exists |-> TRUE, whole |-> FALSE, text |-> text]

\* ---------------------------------------------------------------- state

VARIABLES
    running,      \* runtime: the containers that are running
    events,       \* runtime -> provider: the event stream, oldest first
    subscribed,   \* whether an event subscription is open
    ops,          \* container starts and stops performed so far
    faults,       \* failures injected so far
    containers,   \* Provider.containers
    lastConfig,   \* Provider.lastConfig
    pc,           \* per goroutine: where it is
    cfg,          \* per goroutine: the config of the pass it runs
    tries,        \* per goroutine: failed invocations of the current HandleWithRetry
    startTries,   \* failed invocations of loadConfiguration under Start's HandleWithRetry
    restarted,    \* main has called Provider.Start a second time
    live,         \* the file at nginxConfigPath
    tmp,          \* the file at nginxConfigPath + ".tmp"
    mgrRunning,   \* Manager.running
    child,        \* the nginx child process: "none", "alive" or "dead"
    waitPending,  \* exit status cmd.Wait is about to hand to Manager.monitor
    mainPc,       \* main(): "startNginx", "serving" or "exited"
    log,          \* what the pass in flight has done so far
    prevPass,     \* what the last completed pass did, and the failed passes before it
    followUps,    \* loadConfiguration calls made for events that arrived during one pass
    handled,      \* processEvents has handled at least one event
    cb,           \* the circuit breaker of the provider's ErrorHandler
    cbHolder,     \* the goroutine whose Start holds that breaker's lock, or "none"
    mu,           \* Manager.mu: the write holder and the read holders
    mpc,          \* per caller of the Manager: where its call is
    call,         \* per caller: what its current or last call did
    cmdHeld,      \* Manager.cmd is not nil
    cancelled,    \* Manager.ctx is cancelled
    delivered,    \* the signals delivered to the child, with what sent them
    hups,         \* SIGHUPs sent by Manager.Reload
    calls,        \* calls of Start, Reload and Stop made so far
    ex,           \* breaker runs: what the calls of the breaker did so far
    rsnap,        \* renderer runs: the container snapshot
    rout,         \* renderer runs: the texts of the two runs
    rpc,          \* renderer runs: how many runs are done
    goroutine,    \* per background task: "off", "running", "returned" or "recovered"
    process,      \* the controller process: "running" or "crashed"
    criticals,    \* the tasks whose panic an ErrorHandler reported as Critical
    pool,         \* safe.Pool: its context, its WaitGroup and the call of Stop
    components,   \* HealthMonitor.components: name -> Status and ErrorCount
    streak,       \* per component: failed probes since the last success or registration
    response,     \* the last answer of GET /health
    probes,       \* probe results delivered so far
    cache,        \* the snippet cache directory: the keys that have a file
    fetched,      \* what the last call of a snippet loader did
    loads,        \* calls of the snippet loaders made so far
    fcgi,         \* parameter runs: the inputs and the result of LoadFastCGIParams
    sorting,      \* sort runs: the slice handed to sortLocationsByPriority and what it returned
    eh,           \* handler runs: the goroutine inside HandleWithRetry, the breaker and its lock
    hmu,          \* HealthMonitor.mu, the goroutines that use it and GET /health/detailed
    cmp           \* comparison runs: one pass from configEquals on, and the template file

vars == <<running, events, subscribed, ops, faults, containers, lastConfig, pc, cfg,
          tries, startTries, restarted, live, tmp, mgrRunning, child, waitPending,
          mainPc, log, prevPass, followUps, handled, cb, cbHolder, mu, mpc, call,
          cmdHeld, cancelled, delivered, hups, calls, ex, rsnap, rout, rpc,
          goroutine, process, criticals, pool, components, streak, response, probes,
          cache, fetched, loads, fcgi, sorting, eh, hmu, cmp>>

runtimeVars == <<running, events, subscribed, ops>>
fileVars == <<live, tmp>>
mgrVars == <<mgrRunning, child, waitPending>>
handlerVars == <<cb, cbHolder>>
callVars == <<mu, mpc, call, cmdHeld, cancelled, delivered, hups, calls>>
renderVars == <<rsnap, rout, rpc>>
taskVars == <<goroutine, process, criticals, pool>>
healthVars == <<components, streak, response, probes>>
snippetVars == <<cache, fetched, loads>>
pureVars == <<fcgi, sorting, eh, hmu, cmp>>
sideVars == <<taskVars, healthVars, snippetVars, pureVars>>

PassSteps == {"list", "generate", "writeTemp", "rename", "test", "reload",
              "callback", "mgrReload"}

\* Goroutine t is executing loadConfiguration / updateNginxConfig.
InPass(t) == pc[t] \in PassSteps

\* The record of the pass in flight.  root: it began with an empty event stream;
\* star: its event arrived during such a pass; ran: the enumeration succeeded;
\* same: configEquals held; wrote, renamed, tested: the steps done; testFailed:
\* the configuration test failed after its retries; reloads: reloads issued to the
\* child; memo: lastConfig was replaced; cb: the callback was called; down: the
\* manager reported "not running" at the reload step; direct: reloads issued by
\* the provider's own reload command; rejected: the breaker refused a step;
\* reloadFailed: the reload failed after its retries; result: what the pass
\* returned; prevLive, prevLast: the live file and lastConfig when the pass began;
\* sameSnap: the enumeration equals that of the previous pass, which issued
\* prevReloads reloads; commitErr: the last call of writeConfigFile returned an
\* error; listed: the containers that were running when the pass enumerated;
\* loadErr: a download of a snippet or of a parameter file failed; generateErr:
\* GenerateNginxConfig returned an error; stopped: the container whose stop,
\* die or destroy event the pass was started for; inspectErr: the container of the last start event that
\* handleDockerEvent gave up on because ContainerInspect failed.
EmptyLog ==
    [root |-> FALSE, star |-> FALSE, ran |-> FALSE, same |-> FALSE,
     wrote |-> FALSE, renamed |-> FALSE, tested |-> FALSE, testFailed |-> FALSE,
     reloads |-> 0, direct |-> 0, memo |-> FALSE, cb |-> FALSE, down |-> FALSE,
     rejected |-> FALSE, reloadFailed |-> FALSE, result |-> "none",
     prevLive |-> NoFile, prevLast |-> NilConfig,
     sameSnap |-> FALSE, prevReloads |-> 0, commitErr |-> FALSE,
     listed |-> {}, loadErr |-> FALSE, generateErr |-> FALSE,
     stopped |-> "none", inspectErr |-> "none"]

\* The record of the breaker runs.  retry: the handler's retryAttempts; n: calls
\* made; streak: calls in a row whose operation was invoked and failed; kind:
\* the last call, "execute" or "retry"; outs: what the invocations of its
\* operation would return (TRUE for nil); invoked: invocations it made; res:
\* "ok", "err" (the operation's error) or "open" (the breaker's error); cause:
\* the invocation whose error it returned; half: it was admitted HalfOpen.
NoRuns(retry) ==
    [retry |-> retry, n |-> 0, streak |-> 0, kind |-> "none", outs |-> <<>>,
     invoked |-> 0, res |-> "none", cause |-> 0, half |-> FALSE]

\* The record of a call of the Manager.  op: the method; ran0: Manager.running
\* as the call saw it under the lock; tested: its configuration test passed;
\* hup: it sent SIGHUP; timedOut: its wait for the child's exit timed out; res:
\* what it returned; why: the branch that returned the error.
NoCall ==
    [op |-> "none", ran0 |-> FALSE, tested |-> FALSE, hup |-> FALSE,
     timedOut |-> FALSE, res |-> "none", why |-> "none"]

\* The background tasks: the provider start task main hands to the pool, any
\* other goroutine handed to the pool, Provider.processEvents, Manager.monitor,
\* HealthMonitor.monitorComponent and the goroutine of the health HTTP server.
Tasks == {"provider", "worker", "events", "monitor", "probe", "healthServer"}

\* The tasks started with Pool.GoCtx.
PoolTasks == {"provider", "worker"}

\* The record of a call of a snippet loader.  op: the loader; path: its path;
\* res: "ok" or "err"; cacheRead: it looked for the cache file; copied: it made
\* the runtime's CopyFromContainer call.
NoLoad ==
    [op |-> "none", path |-> <<>>, res |-> "none", cacheRead |-> FALSE, copied |-> FALSE]

\* The answer of GET /health: the HTTP status code, the status in the body and
\* the Status values of the registered components when it was computed.
NoResponse == [code |-> 0, status |-> "none", seen |-> {}]

\* The record of a run of LoadFastCGIParams.  labels: FastCGI.Params; hasFile:
\* FastCGI.ParamsFile is set; file: the parameters parsed from that file;
\* fileErr: loadParamsFromFile fails; res: "none", "ok" or "err"; params: the
\* map returned.
NoParams ==
    [labels |-> <<>>, hasFile |-> FALSE, file |-> <<>>, fileErr |-> FALSE,
     res |-> "none", params |-> <<>>]

\* No task started, NewPool, NewHealthMonitor with no component registered, an
\* empty cache directory.
InitSide ==
    /\ goroutine = [t \in Tasks |-> "off"]
    /\ process = "running"
    /\ criticals = {}
    /\ pool = [cancelled |-> FALSE, waitGroup |-> 0, stop |-> "idle"]
    /\ components = <<>>
    /\ streak = <<>>
    /\ response = NoResponse
    /\ probes = 0
    /\ cache = {}
    /\ fetched = NoLoad
    /\ loads = 0

\* The record of a run of sortLocationsByPriority.  input: the caller's slice
\* at the call; locations: that slice now; sorted: the slice returned; done:
\* the call has returned.
NoSort == [input |-> <<>>, locations |-> <<>>, sorted |-> <<>>, done |-> FALSE]

\* The ErrorHandler of a handler run.  pc: where the goroutine is ("idle",
\* "operation": inside Execute, about to invoke the operation; "reset": inside
\* Handle, at circuitBreaker.Reset; "handle": after Execute, at HandleWithRetry's
\* own call of Handle); lock: the holder of CircuitBreaker.mu ("none", "Execute"
\* or "Reset"); due: more than five minutes have passed since lastResetTime;
\* inside: the Reset is called from inside the operation; op: the operation;
\* attempt: the loop variable; ok: what the last invocation returned; res: what
\* the last call of HandleWithRetry returned; runs: calls made so far.
NoHandlerRun ==
    [pc |-> "idle", lock |-> "none", due |-> FALSE, inside |-> FALSE, op |-> "none",
     attempt |-> 0, ok |-> FALSE, res |-> "none", errorCount |-> 0, runs |-> 0,
     breaker |-> [state |-> "Closed", failureCount |-> 0, expired |-> FALSE,
                  failureThreshold |-> 0]]

\* HealthMonitor.mu with nobody at it.  readers: read locks held; writer: the
\* goroutine holding the write lock; waiting: the goroutines inside Lock(),
\* waiting for it; handler: where detailedHealthHandler is ("idle", "outer":
\* holding its own RLock, "inner": inside GetOverallHealth's RLock, "respond":
\* back in the handler); at, dom: ErrorHandler-independent marks of the
\* writer's body (probes run and names registered when it got the lock);
\* overall: the overall status of the last response; requests: requests served.
NoHealthLock ==
    [readers |-> 0, writer |-> "none", waiting |-> {}, handler |-> "idle",
     at |-> 0, dom |-> {}, overall |-> "none", requests |-> 0]

\* No comparison run.  config: the pass's generated config; last: p.lastConfig;
\* template: whether loadTemplate finds the file; pc: where the pass is;
\* errA, errB: the errors of configEquals' two renders (which it drops);
\* attempt: calls of writeConfigFile made; res: what the pass returned.
NoComparison ==
    [config |-> NilConfig, last |-> NilConfig, template |-> "found", changes |-> 0,
     pc |-> "idle", errA |-> FALSE, errB |-> FALSE, attempt |-> 0, res |-> "none"]

\* No run of a pure function made.
InitPure ==
    /\ fcgi = NoParams
    /\ sorting = NoSort
    /\ eh = NoHandlerRun
    /\ hmu = NoHealthLock
    /\ cmp = NoComparison

\* The controller after construction, its handler made by
\* NewCircuitBreaker(threshold, timeout) and SetRetryConfig(retry, delay):
\* nothing started, no file written.
InitWith(threshold, retry) ==
    /\ running = {}
    /\ events = <<>>
    /\ subscribed = FALSE
    /\ ops = 0
    /\ faults = 0
    /\ containers = <<>>
    /\ lastConfig = NilConfig
    /\ pc = [t \in Threads |-> "off"]
    /\ cfg = [t \in Threads |-> NilConfig]
    /\ tries = [t \in Threads |-> 0]
    /\ startTries = 0
    /\ restarted = FALSE
    /\ live = NoFile
    /\ tmp = NoFile
    /\ mgrRunning = FALSE
    /\ child = "none"
    /\ waitPending = "none"
    /\ mainPc = "startNginx"
    /\ log = EmptyLog
    /\ prevPass = [ran |-> FALSE, reloads |-> 0, failed |-> 0]
    /\ followUps = 0
    /\ handled = FALSE
    /\ cb = NewCircuitBreaker(threshold)
    /\ cbHolder = "none"
    /\ cmdHeld = FALSE
    /\ ex = NoRuns(retry)
    /\ mu = [writer |-> "none", readers |-> {}]
    /\ mpc = [c \in Callers |-> "idle"]
    /\ call = [c \in Callers |-> NoCall]
    /\ cancelled = FALSE
    /\ delivered = {}
    /\ hups = 0
    /\ calls = 0

\* The controller as NewProvider makes it.
InitController == InitWith(FailureThreshold, RetryAttempts)

Init ==
    /\ InitController
    /\ rsnap = <<>>
    /\ rout = <<<<>>, <<>>>>
    /\ rpc = 0
    /\ InitSide
    /\ InitPure

\* ---------------------------------------------------------------- environment

\* The environment makes a call, a file operation or a process fail.
Fault == faults < MaxFaults /\ faults' = faults + 1

NoFault == faults' = faults

\* The n-th failure in a row of one operation under retry: only the first
\* counts against the failures the environment injects.
FaultOnce(n) == IF n = 0 THEN Fault ELSE NoFault

\* ---------------------------------------------------------------- retry

\* HandleWithRetry invokes the operation again after a failure while fewer than
\* retryAttempts retries were made; `failed` counts the failures before this one.
RetryAgain(failed) == failed < RetryAttempts

\* ---------------------------------------------------------------- runtime

\* The pass that began with an empty event stream is still in flight.
StarOpen == log.root /\ \E t \in Threads : InPass(t)

Deliver(action, c) ==
    events' = IF subscribed
              THEN Append(events, [action |-> action, id |-> c, star |-> StarOpen])
              ELSE events

\* The runtime starts container c; a subscriber gets a `start` event.
RuntimeStart(c) ==
    /\ ops < MaxOps
    /\ c \notin running
    /\ running' = running \cup {c}
    /\ ops' = ops + 1
    /\ Deliver("start", c)
    /\ UNCHANGED <<subscribed, faults, containers, lastConfig, pc, cfg, tries,
                   startTries, restarted, fileVars, mgrVars, mainPc, log, prevPass,
                   followUps, handled, handlerVars, callVars, ex,
                   renderVars, sideVars>>

\* Container c stops running; a subscriber gets a stop, die or destroy event.
RuntimeStop(c) ==
    /\ ops < MaxOps
    /\ c \in running
    /\ running' = running \ {c}
    /\ ops' = ops + 1
    /\ \E action \in {"stop", "die", "destroy"} : Deliver(action, c)
    /\ UNCHANGED <<subscribed, faults, containers, lastConfig, pc, cfg, tries,
                   startTries, restarted, fileVars, mgrVars, mainPc, log, prevPass,
                   followUps, handled, handlerVars, callVars, ex,
                   renderVars, sideVars>>

\* The runtime reports an event of another action for the running container c
\* (the subscription's filter aside, handleDockerEvent takes any action).
RuntimeOther(c) ==
    /\ ops < MaxOps
    /\ c \in running
    /\ ops' = ops + 1
    /\ \E action \in {"pause", "restart"} : Deliver(action, c)
    /\ UNCHANGED <<running, subscribed, faults, containers, lastConfig, pc, cfg, tries,
                   startTries, restarted, fileVars, mgrVars, mainPc, log, prevPass,
                   followUps, handled, handlerVars, callVars, ex,
                   renderVars, sideVars>>

\* ---------------------------------------------------------------- manager

\* main starting the provider goroutine and, next to it, a goroutine that
\* handles a first event: two passes begin together.
MutManagerStart ==
    /\ mainPc = "startNginx"
    /\ ~mgrRunning
    /\ \/ /\ mgrRunning' = TRUE
          /\ child' = "alive"
          /\ mainPc' = "serving"
          /\ pc' = [t \in Threads |-> "list"]
          /\ cbHolder' = "start"
          /\ cmdHeld' = TRUE
          /\ NoFault
       \/ /\ mainPc' = "exited"
          /\ Fault
          /\ UNCHANGED <<mgrRunning, child, pc, cbHolder, cmdHeld>>
    /\ UNCHANGED <<runtimeVars, containers, lastConfig, cfg, tries, startTries,
                   restarted, fileVars, waitPending, log, prevPass, followUps,
                   handled, cb, mu, mpc, call, cancelled, delivered, hups, calls, ex,
                   renderVars, sideVars>>

\* main: nginxManager.Start() under HandleWithRetry, then the provider
\* goroutine is started, and Provider.Start enters the HandleWithRetry around
\* the initial loadConfiguration, whose Execute locks the provider's breaker
\* until loadConfiguration has returned.  When Manager.Start fails after the
\* retries main reports Critical on the default handler, which exits.
ManagerStart ==
    /\ mainPc = "startNginx"
    /\ ~mgrRunning
    /\ \/ /\ mgrRunning' = TRUE
          /\ child' = "alive"
          /\ mainPc' = "serving"
          /\ pc' = [pc EXCEPT !["start"] = "list"]
          /\ cbHolder' = "start"
          /\ cmdHeld' = TRUE
          /\ NoFault
       \/ /\ mainPc' = "exited"
          /\ Fault
          /\ UNCHANGED <<mgrRunning, child, pc, cbHolder, cmdHeld>>
    /\ UNCHANGED <<runtimeVars, containers, lastConfig, cfg, tries, startTries,
                   restarted, fileVars, waitPending, log, prevPass, followUps,
                   handled, cb, mu, mpc, call, cancelled, delivered, hups, calls, ex,
                   renderVars, sideVars>>

\* The nginx child exits on its own, with a zero or a non-zero status.
ChildExit ==
    /\ child = "alive"
    /\ Fault
    /\ child' = "dead"
    /\ \E status \in {"zero", "nonzero"} : waitPending' = status
    /\ UNCHANGED <<runtimeVars, containers, lastConfig, pc, cfg, tries, startTries,
                   restarted, fileVars, mgrRunning, mainPc, log, prevPass, followUps,
                   handled, handlerVars, callVars, ex,
                   renderVars, sideVars>>

\* Manager.mu is held by nobody.
Unlocked == mu.writer = "none" /\ mu.readers = {}

\* Manager.monitor: cmd.Wait returned; only an error makes it take the lock and
\* clear `running`.
monitor ==
    /\ mainPc # "exited"
    /\ waitPending # "none"
    /\ waitPending = "nonzero" => Unlocked
    /\ waitPending' = "none"
    /\ mgrRunning' = IF waitPending = "nonzero" THEN FALSE ELSE mgrRunning
    /\ UNCHANGED <<runtimeVars, faults, containers, lastConfig, pc, cfg, tries,
                   startTries, restarted, fileVars, child, mainPc, log, prevPass,
                   followUps, handled, handlerVars, callVars, ex,
                   renderVars, sideVars>>

\* ---------------------------------------------------------------- the pass

\* The pass of goroutine t returns `res` to its caller.
Finish(t, res, lg) ==
    /\ pc' = [pc EXCEPT ![t] = "ret"]
    /\ log' = [lg EXCEPT !.result = res]

\* An invocation under HandleWithRetry failed: invoke again from `again`, or
\* give up and let the pass return `res`.
Failed(t, again, res, lg) ==
    IF RetryAgain(tries[t])
    THEN /\ tries' = [tries EXCEPT ![t] = @ + 1]
         /\ pc' = [pc EXCEPT ![t] = again]
         /\ log' = lg
    ELSE /\ tries' = tries
         /\ Finish(t, res, lg)

\* The breaker as the HandleWithRetry goroutine t is in sees it: Execute looks
\* at the timeout once, before the first invocation.
Entered(t) == IF tries[t] = 0 THEN Admit(cb) ELSE cb

\* The breaker after an invocation of goroutine t's HandleWithRetry failed.
AfterFailure(t) == IF RetryAgain(tries[t]) THEN Entered(t) ELSE OnFailure(Entered(t))

\* HandleWithRetry of goroutine t returns "circuit breaker is open" without
\* invoking the operation, and the pass returns that error.
Rejected(t) ==
    /\ Entered(t).state = "Open"
    /\ NoFault
    /\ cb' = cb
    /\ tries' = tries
    /\ Finish(t, "err", [log EXCEPT !.rejected = TRUE])

\* Provider.loadConfiguration: enumerate, store the set, go on to
\* updateNginxConfig; an enumeration error returns at once.
loadConfiguration(t) ==
    /\ pc[t] = "list"
    /\ followUps' = IF events = <<>> /\ ~log.star THEN 0
                    ELSE IF log.star THEN followUps + 1
                    ELSE followUps
    /\ \/ /\ IF t = "start" THEN FaultOnce(startTries) ELSE Fault
          /\ Finish(t, "err", log)
          /\ UNCHANGED containers
       \/ \E failed \in SUBSET {c \in running : hasNginxLabels(c)} :
            LET new == ListContainers(running, failed)
            IN  /\ IF failed = {} THEN NoFault ELSE Fault
                /\ containers' = new
                /\ pc' = [pc EXCEPT ![t] = "generate"]
                /\ log' = [log EXCEPT !.ran = TRUE,
                                      !.root = (events = <<>> /\ ~log.star),
                                      !.prevLive = live,
                                      !.prevLast = lastConfig,
                                      !.listed = running,
                                      !.sameSnap = (prevPass.ran /\ new = containers),
                                      !.prevReloads = prevPass.reloads]
    /\ UNCHANGED <<runtimeVars, lastConfig, cfg, tries, startTries, restarted,
                   fileVars, mgrVars, mainPc, prevPass, handled, handlerVars, callVars, ex,
                   renderVars, sideVars>>

\* ValidateNginxConfig: no upstream name and no server name occurs twice.
ValidateNginxConfig(config) ==
    /\ \A i, j \in 1..Len(config.Upstreams) :
          config.Upstreams[i] = config.Upstreams[j] => i = j
    /\ \A i, j \in 1..Len(config.Servers) :
          config.Servers[i].ServerName = config.Servers[j].ServerName => i = j

\* The loader calls GenerateNginxConfig makes for container c; `down` holds
\* the containers the runtime's copy fails for.
SnippetOf(c, down) ==
    DownloadAllSnippets(ExtractConfig(c),
                        CacheKey(c, ExtractConfig(c).ConfigurationSnippet) \in cache,
                        c \notin down)

ParamsOf(c, down) ==
    IF ExtractConfig(c).FastCGI.Enabled
    THEN LoadFastCGIParams(ExtractConfig(c),
                           CacheKey(c, ExtractConfig(c).FastCGI.ParamsFile) \in cache,
                           c \notin down)
    ELSE Loaded("ok", FALSE, FALSE)

\* updateNginxConfig up to the unchanged check: snapshot, generate (with the
\* downloads of snippets and parameter files, which fill the cache), validate,
\* compare with lastConfig.  An error of GenerateNginxConfig returns at once.
generate(t) ==
    /\ pc[t] = "generate"
    /\ LET cs == FilterEnabledContainers(containers)
       IN  \E order \in HostOrders(cs),
              down \in SUBSET {c \in Range(cs) : SnippetOf(c, {}).copied
                                                  \/ ParamsOf(c, {}).copied} :
             LET loaded == {c \in Range(cs) : SnippetOf(c, down).res = "ok"}
                 lost   == {c \in Range(cs) : ParamsOf(c, down).res = "err"}
                 config == GenerateNginxConfig(cs, order, loaded)
                 lg     == [log EXCEPT !.loadErr =
                               \E c \in Range(cs) : "err" \in {SnippetOf(c, down).res,
                                                               ParamsOf(c, down).res}]
             IN  /\ IF down = {} THEN NoFault ELSE Fault
                 /\ cache' = cache \cup
                        {CacheKey(c, ExtractConfig(c).ConfigurationSnippet) :
                            c \in {d \in Range(cs) \ down : SnippetOf(d, down).copied}}
                        \cup
                        {CacheKey(c, ExtractConfig(c).FastCGI.ParamsFile) :
                            c \in {d \in Range(cs) \ down : ParamsOf(d, down).copied}}
                 /\ IF GenerateFails(cs, lost)
                    THEN /\ cfg' = cfg
                         /\ Finish(t, "err", [lg EXCEPT !.generateErr = TRUE])
                    ELSE /\ cfg' = [cfg EXCEPT ![t] = config]
                         /\ IF ~ValidateNginxConfig(config)
                            THEN Finish(t, "err", lg)
                            ELSE IF configEquals(config, lastConfig)
                            THEN Finish(t, "ok", [lg EXCEPT !.same = TRUE])
                            ELSE /\ pc' = [pc EXCEPT ![t] = "writeTemp"]
                                 /\ log' = lg
    /\ tries' = [tries EXCEPT ![t] = 0]
    /\ UNCHANGED <<runtimeVars, containers, lastConfig, startTries,
                   restarted, fileVars, mgrVars, mainPc, prevPass, followUps,
                   handled, handlerVars, callVars, ex,
                   renderVars, taskVars, healthVars, pureVars, fetched, loads>>

\* writeConfigFile writing the text straight to the live path, as
\* WriteNginxConfig does.
MutWriteTemp(t) ==
    /\ pc[t] = "writeTemp"
    /\ cbHolder = "none"
    /\ \/ Rejected(t) /\ UNCHANGED live
       \/ /\ Entered(t).state # "Open"
          /\ \/ /\ NoFault
                /\ live' = Whole(RenderNginxConfig(cfg[t]))
                /\ cb' = OnSuccess(Entered(t))
                /\ pc' = [pc EXCEPT ![t] = "test"]
                /\ log' = [log EXCEPT !.wrote = TRUE, !.renamed = TRUE]
                /\ tries' = [tries EXCEPT ![t] = 0]
             \/ /\ FaultOnce(tries[t])
                /\ live' = Partial(RenderNginxConfig(cfg[t]))
                /\ cb' = AfterFailure(t)
                /\ Failed(t, "writeTemp", "err", [log EXCEPT !.wrote = TRUE])
    /\ UNCHANGED <<runtimeVars, containers, lastConfig, cfg, startTries, restarted,
                   tmp, mgrVars, mainPc, prevPass, followUps, handled, cbHolder, callVars, ex,
                   renderVars, sideVars>>

\* updateNginxConfig: HandleWithRetry around writeConfigFile, whose first half
\* is os.WriteFile of the temp file.  Execute takes the breaker's lock first.  A
\* failed write leaves the temp file as it was or holding a part of the text.
writeTemp(t) ==
    /\ pc[t] = "writeTemp"
    /\ cbHolder = "none"
    /\ \/ Rejected(t) /\ UNCHANGED tmp
       \/ /\ Entered(t).state # "Open"
          /\ \/ /\ NoFault
                /\ tmp' = Whole(RenderNginxConfig(cfg[t]))
                /\ cb' = Entered(t)
                /\ pc' = [pc EXCEPT ![t] = "rename"]
                /\ log' = [log EXCEPT !.wrote = TRUE, !.commitErr = FALSE]
                /\ tries' = tries
             \/ /\ FaultOnce(tries[t])
                /\ \/ tmp' = tmp
                   \/ tmp' = Partial(RenderNginxConfig(cfg[t]))
                /\ cb' = AfterFailure(t)
                /\ Failed(t, "writeTemp", "err",
                          [log EXCEPT !.wrote = (tmp' # tmp) \/ @,
                                      !.commitErr = TRUE])
    /\ UNCHANGED <<runtimeVars, containers, lastConfig, cfg, startTries, restarted,
                   live, mgrVars, mainPc, prevPass, followUps, handled, cbHolder, callVars, ex,
                   renderVars, sideVars>>

\* writeConfigFile, second half: os.Rename of the temp file over the live
\* file; a failed rename removes the temp file.
rename(t) ==
    /\ pc[t] = "rename"
    /\ \/ /\ NoFault
          /\ live' = tmp
          /\ tmp' = NoFile
          /\ cb' = OnSuccess(cb)
          /\ pc' = [pc EXCEPT ![t] = "test"]
          /\ log' = [log EXCEPT !.renamed = TRUE]
          /\ tries' = [tries EXCEPT ![t] = 0]
       \/ /\ FaultOnce(tries[t])
          /\ tmp' = NoFile
          /\ live' = live
          /\ cb' = IF RetryAgain(tries[t]) THEN cb ELSE OnFailure(cb)
          /\ Failed(t, "writeTemp", "err", [log EXCEPT !.commitErr = TRUE])
    /\ UNCHANGED <<runtimeVars, containers, lastConfig, cfg, startTries, restarted,
                   mgrVars, mainPc, prevPass, followUps, handled, cbHolder, callVars, ex,
                   renderVars, sideVars>>

\* updateNginxConfig going on to the reload although the test failed.
MutTestNginxConfig(t) ==
    /\ pc[t] = "test"
    /\ cbHolder = "none"
    /\ \/ Rejected(t)
       \/ /\ Entered(t).state # "Open"
          /\ \/ /\ NoFault
                /\ cb' = OnSuccess(Entered(t))
                /\ pc' = [pc EXCEPT ![t] = "reload"]
                /\ log' = [log EXCEPT !.tested = TRUE]
                /\ tries' = [tries EXCEPT ![t] = 0]
             \/ /\ FaultOnce(tries[t])
                /\ cb' = AfterFailure(t)
                /\ IF RetryAgain(tries[t])
                   THEN /\ tries' = [tries EXCEPT ![t] = @ + 1]
                        /\ UNCHANGED <<pc, log>>
                   ELSE /\ tries' = [tries EXCEPT ![t] = 0]
                        /\ pc' = [pc EXCEPT ![t] = "reload"]
                        /\ log' = [log EXCEPT !.testFailed = TRUE]
    /\ UNCHANGED <<runtimeVars, containers, lastConfig, cfg, startTries, restarted,
                   fileVars, mgrVars, mainPc, prevPass, followUps, handled,
                   cbHolder, callVars, ex,
                   renderVars, sideVars>>

\* updateNginxConfig: testNginxConfig under HandleWithRetry: `nginx -t` on the
\* files on disk.
testNginxConfig(t) ==
    /\ pc[t] = "test"
    /\ cbHolder = "none"
    /\ \/ Rejected(t)
       \/ /\ Entered(t).state # "Open"
          /\ \/ /\ NoFault
                /\ cb' = OnSuccess(Entered(t))
                /\ pc' = [pc EXCEPT ![t] = "reload"]
                /\ log' = [log EXCEPT !.tested = TRUE]
                /\ tries' = [tries EXCEPT ![t] = 0]
             \/ /\ FaultOnce(tries[t])
                /\ cb' = AfterFailure(t)
                /\ Failed(t, "test", "err",
                          [log EXCEPT !.testFailed = ~RetryAgain(tries[t])])
    /\ UNCHANGED <<runtimeVars, containers, lastConfig, cfg, startTries, restarted,
                   fileVars, mgrVars, mainPc, prevPass, followUps, handled,
                   cbHolder, callVars, ex,
                   renderVars, sideVars>>

\* updateNginxConfig: reloadNginx under HandleWithRetry: the reload command
\* signals a live master process; on success lastConfig is replaced.
reloadNginx(t) ==
    /\ pc[t] = "reload"
    /\ cbHolder = "none"
    /\ \/ Rejected(t) /\ UNCHANGED lastConfig
       \/ /\ Entered(t).state # "Open"
          /\ \/ /\ child = "alive"
                /\ NoFault
                /\ lastConfig' = cfg[t]
                /\ cb' = OnSuccess(Entered(t))
                /\ pc' = [pc EXCEPT ![t] = "callback"]
                /\ log' = [log EXCEPT !.reloads = @ + 1, !.memo = TRUE,
                                      !.direct = @ + 1, !.down = ~mgrRunning]
                /\ tries' = [tries EXCEPT ![t] = 0]
             \/ /\ IF child = "alive" THEN FaultOnce(tries[t]) ELSE NoFault
                /\ lastConfig' = lastConfig
                /\ cb' = AfterFailure(t)
                /\ Failed(t, "reload", "err",
                          [log EXCEPT !.down = ~mgrRunning,
                                      !.reloadFailed = ~RetryAgain(tries[t])])
    /\ UNCHANGED <<runtimeVars, containers, cfg, startTries, restarted, fileVars,
                   mgrVars, mainPc, prevPass, followUps, handled, cbHolder, callVars, ex,
                   renderVars, sideVars>>

\* onConfigChangeWithReload: reload through the manager when it is running.
onConfigChangeWithReload(t) ==
    /\ pc[t] = "callback"
    /\ IF mgrRunning
       THEN /\ pc' = [pc EXCEPT ![t] = "mgrReload"]
            /\ log' = [log EXCEPT !.cb = TRUE, !.down = FALSE]
       ELSE Finish(t, "ok", [log EXCEPT !.cb = TRUE, !.down = TRUE])
    /\ UNCHANGED <<runtimeVars, faults, containers, lastConfig, cfg, tries,
                   startTries, restarted, fileVars, mgrVars, mainPc, prevPass,
                   followUps, handled, handlerVars, callVars, ex,
                   renderVars, sideVars>>

\* Manager.Reload under main's HandleWithRetry: refused when not running or
\* when the configuration test fails, else SIGHUP to the child; a child that
\* has exited cannot be signalled.  The callback returns nothing to the pass.
Reload(t) ==
    /\ pc[t] = "mgrReload"
    /\ \/ /\ mgrRunning
          /\ child = "alive"
          /\ NoFault
          /\ tries' = tries
          /\ Finish(t, "ok", [log EXCEPT !.reloads = @ + 1])
       \/ /\ IF mgrRunning /\ child = "alive" THEN FaultOnce(tries[t]) ELSE NoFault
          /\ Failed(t, "mgrReload", "ok", log)
    /\ UNCHANGED <<runtimeVars, containers, lastConfig, cfg, startTries, restarted,
                   fileVars, mgrVars, mainPc, prevPass, followUps, handled,
                   handlerVars, callVars, ex,
                   renderVars, sideVars>>

\* ---------------------------------------------------------------- Start

\* Passes in a row, up to the one that just returned, that failed at the test
\* or at the reload step; a pass the breaker refused leaves the count alone.
FailedInARow ==
    IF log.testFailed \/ log.reloadFailed THEN prevPass.failed + 1
    ELSE IF log.result = "none" \/ log.rejected THEN prevPass.failed
    ELSE 0

\* The pass record of the pass that just returned.
Completed ==
    [ran |-> log.ran \/ prevPass.ran,
     reloads |-> IF log.ran THEN log.reloads ELSE prevPass.reloads,
     failed |-> FailedInARow]

\* Provider.Start after loadConfiguration returned nil: startEventMonitoring
\* opens the subscription, then go p.processEvents().
startEventMonitoring ==
    /\ pc["start"] = "ret"
    /\ log.result = "ok"
    /\ cb' = OnSuccess(cb)
    /\ cbHolder' = "none"
    /\ subscribed' = TRUE
    /\ events' = <<>>
    /\ pc' = [pc EXCEPT !["start"] = "done", !["loop"] = "select"]
    /\ log' = EmptyLog
    /\ prevPass' = Completed
    /\ cfg' = [cfg EXCEPT !["start"] = NilConfig]
    /\ tries' = [tries EXCEPT !["start"] = 0]
    /\ UNCHANGED <<running, ops, faults, containers, lastConfig, startTries,
                   restarted, fileVars, mgrVars, mainPc, followUps, handled, callVars, ex,
                   renderVars, sideVars>>

\* Provider.Start after loadConfiguration returned an error: HandleWithRetry
\* calls it again; once it gives up Execute counts one failure and unlocks the
\* breaker, Start returns the error and main calls Start a second time, which
\* locks the breaker again; a second error is reported Critical on the default
\* handler, which exits.
startFailed ==
    /\ pc["start"] = "ret"
    /\ log.result = "err"
    /\ log' = EmptyLog
    /\ prevPass' = Completed
    /\ cfg' = [cfg EXCEPT !["start"] = NilConfig]
    /\ tries' = [tries EXCEPT !["start"] = 0]
    /\ IF RetryAgain(startTries)
       THEN /\ startTries' = startTries + 1
            /\ pc' = [pc EXCEPT !["start"] = "list"]
            /\ restarted' = restarted
       ELSE IF ~restarted
       THEN /\ startTries' = 0
            /\ pc' = [pc EXCEPT !["start"] = "list"]
            /\ restarted' = TRUE
       ELSE /\ startTries' = startTries
            /\ pc' = [pc EXCEPT !["start"] = "failed"]
            /\ restarted' = restarted
    /\ cb' = IF RetryAgain(startTries) THEN cb ELSE OnFailure(cb)
    /\ cbHolder' = IF RetryAgain(startTries) \/ ~restarted THEN "start" ELSE "none"
    /\ mainPc' = IF RetryAgain(startTries) \/ ~restarted THEN mainPc ELSE "exited"
    /\ UNCHANGED <<runtimeVars, faults, containers, lastConfig, fileVars, mgrVars,
                   followUps, handled, callVars, ex,
                   renderVars, sideVars>>

\* ---------------------------------------------------------------- processEvents

\* handleDockerEvent decides that the event needs loadConfiguration.
\* `inspect` is the outcome of ContainerInspect for a start event.
\* A check that lets every start whose inspect succeeded, and every event of
\* another action, start a pass.
MutNeedsUpdate(e, inspect) == e.action = "start" => inspect = "ok"

NeedsUpdate(e, inspect) ==
    CASE e.action = "start" -> inspect = "ok" /\ hasNginxLabels(e.id)
      [] e.action \in {"stop", "die", "destroy"} -> e.id \in Range(containers)
      [] OTHER -> FALSE

InspectOutcomes(e) == IF e.action = "start" THEN {"ok", "notfound", "error"} ELSE {"ok"}

\* A handler that coalesces: of the events that arrived during one pass only
\* the first starts a follow-up pass.
MutHandleDockerEvent ==
    /\ pc["loop"] = "select"
    /\ events # <<>>
    /\ events' = Tail(events)
    /\ handled' = TRUE
    /\ \E inspect \in InspectOutcomes(Head(events)) :
         /\ IF inspect = "ok" THEN NoFault ELSE Fault
         /\ IF NeedsUpdate(Head(events), inspect)
               /\ ~(Head(events).star /\ followUps >= 1)
            THEN /\ pc' = [pc EXCEPT !["loop"] = "list"]
                 /\ log' = [log EXCEPT !.star = Head(events).star]
            ELSE UNCHANGED <<pc, log>>
    /\ UNCHANGED <<running, subscribed, ops, containers, lastConfig, cfg, tries,
                   startTries, restarted, fileVars, mgrVars, mainPc, prevPass,
                   followUps, handlerVars, callVars, ex,
                   renderVars, sideVars>>

\* processEvents receives the oldest event and handleDockerEvent handles it up
\* to its call of loadConfiguration.
handleDockerEvent ==
    /\ pc["loop"] = "select"
    /\ events # <<>>
    /\ events' = Tail(events)
    /\ handled' = TRUE
    /\ \E inspect \in InspectOutcomes(Head(events)) :
         /\ IF inspect = "ok" THEN NoFault ELSE Fault
         /\ IF NeedsUpdate(Head(events), inspect)
            THEN /\ pc' = [pc EXCEPT !["loop"] = "list"]
                 /\ log' = [log EXCEPT !.star = Head(events).star,
                                       !.inspectErr = "none",
                                       !.stopped =
                                           IF Head(events).action
                                                  \in {"stop", "die", "destroy"}
                                           THEN Head(events).id ELSE "none"]
            ELSE /\ pc' = pc
                 /\ log' = IF inspect = "error"
                           THEN [log EXCEPT !.inspectErr = Head(events).id]
                           ELSE log
    /\ UNCHANGED <<running, subscribed, ops, containers, lastConfig, cfg, tries,
                   startTries, restarted, fileVars, mgrVars, mainPc, prevPass,
                   followUps, handlerVars, callVars, ex,
                   renderVars, sideVars>>

\* handleDockerEvent returned to processEvents (an error goes to onError).
eventHandled ==
    /\ pc["loop"] = "ret"
    /\ pc' = [pc EXCEPT !["loop"] = "select"]
    /\ log' = EmptyLog
    /\ prevPass' = Completed
    /\ cfg' = [cfg EXCEPT !["loop"] = NilConfig]
    /\ tries' = [tries EXCEPT !["loop"] = 0]
    /\ UNCHANGED <<runtimeVars, faults, containers, lastConfig, startTries,
                   restarted, fileVars, mgrVars, mainPc, followUps, handled,
                   handlerVars, callVars, ex,
                   renderVars, sideVars>>

\* The event stream reports an error: the subscription is dead until
\* startEventMonitoring has run again.
streamError ==
    /\ pc["loop"] = "select"
    /\ subscribed
    /\ Fault
    /\ subscribed' = FALSE
    /\ pc' = [pc EXCEPT !["loop"] = "resubscribe"]
    /\ UNCHANGED <<running, events, ops, containers, lastConfig, cfg, tries,
                   startTries, restarted, fileVars, mgrVars, mainPc, log, prevPass,
                   followUps, handled, handlerVars, callVars, ex,
                   renderVars, sideVars>>

\* processEvents restarts the monitoring: a new channel replaces the old one.
restartMonitoring ==
    /\ pc["loop"] = "resubscribe"
    /\ subscribed' = TRUE
    /\ events' = <<>>
    /\ pc' = [pc EXCEPT !["loop"] = "select"]
    /\ UNCHANGED <<running, ops, faults, containers, lastConfig, cfg, tries,
                   startTries, restarted, fileVars, mgrVars, mainPc, log, prevPass,
                   followUps, handled, handlerVars, callVars, ex,
                   renderVars, sideVars>>

\* ---------------------------------------------------------------- specification

\* More than the breaker's timeout passes after its last failure.
timeoutElapsed ==
    /\ cb.state = "Open"
    /\ ~cb.expired
    /\ cb' = [cb EXCEPT !.expired = TRUE]
    /\ UNCHANGED <<runtimeVars, faults, containers, lastConfig, pc, cfg, tries,
                   startTries, restarted, fileVars, mgrVars, mainPc, log, prevPass,
                   followUps, handled, cbHolder, callVars, ex,
                   renderVars, sideVars>>

\* The program from main().  The initial pass of Provider.Start runs inside the
\* Execute of the provider's breaker; updateNginxConfig's HandleWithRetry around
\* the write calls Execute on the same breaker, whose guard cbHolder = "none"
\* never holds for the goroutine that is the holder: the pass stays at
\* "writeTemp" and processEvents is not started.
Next ==
    \/ \E c \in Containers : RuntimeStart(c)
    \/ \E c \in Containers : RuntimeStop(c)
    \/ ManagerStart
    \/ ChildExit
    \/ monitor
    \/ loadConfiguration("start")
    \/ generate("start")
    \/ startFailed

Spec == Init /\ [][Next]_vars

\* ---------------------------------------------------------------- the event loop

\* processEvents as line 339 of Provider.Start starts it, on a runtime with no
\* container running: the manager has started nginx, the initial pass has
\* committed the config of the empty snapshot, the subscription is open and
\* the breaker is unlocked.  prevPass and followUps are about the passes of the
\* loop.
InitLoop ==
    /\ running = {}
    /\ events = <<>>
    /\ subscribed = TRUE
    /\ ops = 0
    /\ faults = 0
    /\ containers = <<>>
    /\ lastConfig = GenerateNginxConfig(<<>>, <<>>, {})
    /\ pc = [t \in Threads |-> IF t = "loop" THEN "select" ELSE "done"]
    /\ cfg = [t \in Threads |-> NilConfig]
    /\ tries = [t \in Threads |-> 0]
    /\ startTries = 0
    /\ restarted = FALSE
    /\ live = Whole(RenderNginxConfig(GenerateNginxConfig(<<>>, <<>>, {})))
    /\ tmp = NoFile
    /\ mgrRunning = TRUE
    /\ child = "alive"
    /\ waitPending = "none"
    /\ mainPc = "serving"
    /\ log = EmptyLog
    /\ prevPass = [ran |-> FALSE, reloads |-> 0, failed |-> 0]
    /\ followUps = 0
    /\ handled = FALSE
    /\ cb = NewCircuitBreaker(FailureThreshold)
    /\ cbHolder = "none"
    /\ cmdHeld = TRUE
    /\ ex = NoRuns(RetryAttempts)
    /\ mu = [writer |-> "none", readers |-> {}]
    /\ mpc = [c \in Callers |-> "idle"]
    /\ call = [c \in Callers |-> NoCall]
    /\ cancelled = FALSE
    /\ delivered = {}
    /\ hups = 0
    /\ calls = 0
    /\ rsnap = <<>>
    /\ rout = <<<<>>, <<>>>>
    /\ rpc = 0
    /\ InitSide
    /\ InitPure

NextLoop ==
    \/ \E c \in Containers : RuntimeStart(c)
    \/ \E c \in Containers : RuntimeStop(c)
    \/ ChildExit
    \/ monitor
    \/ timeoutElapsed
    \/ loadConfiguration("loop")
    \/ generate("loop")
    \/ writeTemp("loop")
    \/ rename("loop")
    \/ testNginxConfig("loop")
    \/ reloadNginx("loop")
    \/ onConfigChangeWithReload("loop")
    \/ Reload("loop")
    \/ handleDockerEvent
    \/ eventHandled
    \/ streamError
    \/ restartMonitoring

SpecLoop == InitLoop /\ [][NextLoop]_vars

\* The containers started in SpecPass: a plain route, a route with a
\* configuration snippet, a FastCGI route with a parameter file, and two
\* containers whose labels fail ExtractConfig and ValidateConfig.
PassContainers == {"blog", "php", "bad", "rel"}

\* No more than PassFaults calls have failed after the step.
FewFaults == faults' <= PassFaults

\* The event loop while the runtime starts containers.
NextPass ==
    \/ \E c \in PassContainers : ops < MaxStarts /\ RuntimeStart(c)
    \/ loadConfiguration("loop") /\ FewFaults
    \/ generate("loop") /\ FewFaults
    \/ writeTemp("loop") /\ FewFaults
    \/ rename("loop") /\ FewFaults
    \/ testNginxConfig("loop") /\ FewFaults
    \/ reloadNginx("loop") /\ FewFaults
    \/ onConfigChangeWithReload("loop") /\ FewFaults
    \/ Reload("loop") /\ FewFaults
    \/ handleDockerEvent /\ FewFaults
    \/ eventHandled

\* The event loop on a runtime that starts containers of every kind.
SpecPass == InitLoop /\ [][NextPass]_vars

\* The event loop on events of every action.
NextEvents ==
    \/ \E c \in Containers : ops < MaxStarts /\ RuntimeStart(c)
    \/ \E c \in Containers : ops < MaxStarts /\ RuntimeStop(c)
    \/ \E c \in Containers : ops < MaxStarts /\ RuntimeOther(c)
    \/ loadConfiguration("loop") /\ FewFaults
    \/ generate("loop") /\ FewFaults
    \/ writeTemp("loop") /\ FewFaults
    \/ rename("loop") /\ FewFaults
    \/ testNginxConfig("loop") /\ FewFaults
    \/ reloadNginx("loop") /\ FewFaults
    \/ onConfigChangeWithReload("loop") /\ FewFaults
    \/ Reload("loop") /\ FewFaults
    \/ handleDockerEvent /\ FewFaults
    \/ eventHandled

\* The event loop on a runtime that reports events of every action.
SpecEvents == InitLoop /\ [][NextEvents]_vars

\* The FastCGI backends of the fixture.
FastCGIContainers == {"php", "fpm", "cgi"}

\* The event loop while the runtime starts FastCGI backends.
NextFastCGI ==
    \/ \E c \in FastCGIContainers : ops < MaxStarts /\ RuntimeStart(c)
    \/ loadConfiguration("loop") /\ FewFaults
    \/ generate("loop") /\ FewFaults
    \/ writeTemp("loop") /\ FewFaults
    \/ rename("loop") /\ FewFaults
    \/ testNginxConfig("loop") /\ FewFaults
    \/ reloadNginx("loop") /\ FewFaults
    \/ onConfigChangeWithReload("loop") /\ FewFaults
    \/ Reload("loop") /\ FewFaults
    \/ handleDockerEvent /\ FewFaults
    \/ eventHandled

\* The event loop on a runtime that starts FastCGI backends.
SpecFastCGI == InitLoop /\ [][NextFastCGI]_vars

\* ---------------------------------------------------------------- Manager calls

\* What the calls of the Manager leave alone.
providerVars == <<running, events, subscribed, ops, containers, lastConfig, pc, cfg,
                  tries, startTries, restarted, live, tmp, mainPc, log, prevPass,
                  followUps, handled, cb, cbHolder, ex, rsnap, rout, rpc, sideVars>>

\* The call of caller c returns and releases the lock it holds.
Return(c, res, why) ==
    /\ mpc' = [mpc EXCEPT ![c] = "idle"]
    /\ call' = [call EXCEPT ![c].res = res, ![c].why = why]
    /\ mu' = [writer |-> IF mu.writer = c THEN "none" ELSE mu.writer,
              readers |-> mu.readers \ {c}]

\* Manager.Start: m.mu.Lock().
StartLock(c) ==
    /\ mpc[c] = "idle"
    /\ calls < MaxCalls
    /\ Unlocked
    /\ calls' = calls + 1
    /\ mu' = [mu EXCEPT !.writer = c]
    /\ mpc' = [mpc EXCEPT ![c] = "start"]
    /\ call' = [call EXCEPT ![c] = [NoCall EXCEPT !.op = "Start", !.ran0 = mgrRunning]]
    /\ UNCHANGED <<providerVars, faults, mgrVars, cmdHeld, cancelled, delivered, hups>>

\* A Start that does not look at m.running.
MutStartRun(c) ==
    /\ mpc[c] = "start"
    /\ \/ /\ Fault
          /\ Return(c, "err", "test")
          /\ UNCHANGED <<mgrVars, cmdHeld>>
       \/ /\ IF cancelled THEN NoFault ELSE Fault
          /\ cmdHeld' = TRUE
          /\ Return(c, "err", "start")
          /\ UNCHANGED mgrVars
       \/ /\ ~cancelled
          /\ NoFault
          /\ cmdHeld' = TRUE
          /\ mgrRunning' = TRUE
          /\ child' = "alive"
          /\ waitPending' = "none"
          /\ call' = [call EXCEPT ![c].res = "ok", ![c].tested = TRUE]
          /\ mpc' = [mpc EXCEPT ![c] = "idle"]
          /\ mu' = [mu EXCEPT !.writer = "none"]
    /\ UNCHANGED <<providerVars, cancelled, delivered, hups, calls>>

\* Manager.Start under the lock: refused when running; the configuration test
\* and cmd.Start run under HandleWithRetry; a command made from a cancelled
\* context does not start.  On success running is set and monitor is spawned.
StartRun(c) ==
    /\ mpc[c] = "start"
    /\ \/ /\ mgrRunning
          /\ NoFault
          /\ Return(c, "err", "running")
          /\ UNCHANGED <<mgrVars, cmdHeld>>
       \/ /\ ~mgrRunning
          /\ Fault
          /\ Return(c, "err", "test")
          /\ UNCHANGED <<mgrVars, cmdHeld>>
       \/ /\ ~mgrRunning
          /\ IF cancelled THEN NoFault ELSE Fault
          /\ cmdHeld' = TRUE
          /\ Return(c, "err", "start")
          /\ UNCHANGED mgrVars
       \/ /\ ~mgrRunning
          /\ ~cancelled
          /\ NoFault
          /\ cmdHeld' = TRUE
          /\ mgrRunning' = TRUE
          /\ child' = "alive"
          /\ waitPending' = "none"
          /\ call' = [call EXCEPT ![c].res = "ok", ![c].tested = TRUE]
          /\ mpc' = [mpc EXCEPT ![c] = "idle"]
          /\ mu' = [mu EXCEPT !.writer = "none"]
    /\ UNCHANGED <<providerVars, cancelled, delivered, hups, calls>>

\* Manager.Reload: m.mu.RLock() and the check of m.running.
ReloadLock(c) ==
    /\ mpc[c] = "idle"
    /\ calls < MaxCalls
    /\ mu.writer = "none"
    /\ calls' = calls + 1
    /\ IF mgrRunning
       THEN /\ mu' = [mu EXCEPT !.readers = @ \cup {c}]
            /\ mpc' = [mpc EXCEPT ![c] = "reloadTest"]
            /\ call' = [call EXCEPT ![c] = [NoCall EXCEPT !.op = "Reload", !.ran0 = TRUE]]
       ELSE /\ call' = [call EXCEPT ![c] = [NoCall EXCEPT !.op = "Reload", !.res = "err",
                                                         !.why = "notRunning"]]
            /\ UNCHANGED <<mu, mpc>>
    /\ UNCHANGED <<providerVars, faults, mgrVars, cmdHeld, cancelled, delivered, hups>>

\* Manager.Reload sending SIGHUP whatever the configuration test said.
MutReloadTest(c) ==
    /\ mpc[c] = "reloadTest"
    /\ \/ /\ NoFault
          /\ call' = [call EXCEPT ![c].tested = TRUE]
       \/ /\ Fault
          /\ call' = call
    /\ mpc' = [mpc EXCEPT ![c] = "reloadSignal"]
    /\ UNCHANGED <<providerVars, mgrVars, mu, cmdHeld, cancelled, delivered, hups, calls>>

\* Manager.Reload: testConfig under HandleWithRetry; an error returns.
ReloadTest(c) ==
    /\ mpc[c] = "reloadTest"
    /\ \/ /\ NoFault
          /\ mpc' = [mpc EXCEPT ![c] = "reloadSignal"]
          /\ call' = [call EXCEPT ![c].tested = TRUE]
          /\ mu' = mu
       \/ /\ Fault
          /\ Return(c, "err", "test")
    /\ UNCHANGED <<providerVars, mgrVars, cmdHeld, cancelled, delivered, hups, calls>>

\* The child's process can be signalled: it runs, or it has exited and its
\* Wait has not returned yet.  Wait has returned once monitor has its result.
Signallable ==
    {child = "alive"} \cup (IF child = "dead" /\ waitPending # "none" THEN {TRUE} ELSE {})

\* Manager.Reload: Process.Signal(SIGHUP) under HandleWithRetry; a process that
\* has been waited for cannot be signalled.
ReloadSignal(c) ==
    /\ mpc[c] = "reloadSignal"
    /\ NoFault
    /\ \E can \in Signallable :
       IF can
       THEN /\ hups' = hups + 1
            /\ delivered' = IF child = "alive"
                            THEN delivered \cup {[sig |-> "HUP", why |-> "reload"]}
                            ELSE delivered
            /\ mpc' = [mpc EXCEPT ![c] = "idle"]
            /\ call' = [call EXCEPT ![c].res = "ok", ![c].hup = TRUE]
            /\ mu' = [mu EXCEPT !.readers = @ \ {c}]
       ELSE /\ Return(c, "err", "signal")
            /\ UNCHANGED <<hups, delivered>>
    /\ UNCHANGED <<providerVars, mgrVars, cmdHeld, cancelled, calls>>

\* Manager.Stop: m.mu.Lock(), the check of m.running, and m.cancel().
StopLock(c) ==
    /\ mpc[c] = "idle"
    /\ calls < MaxCalls
    /\ Unlocked
    /\ calls' = calls + 1
    /\ IF mgrRunning
       THEN /\ mu' = [mu EXCEPT !.writer = c]
            /\ cancelled' = TRUE
            /\ mpc' = [mpc EXCEPT ![c] = "stopSignal"]
            /\ call' = [call EXCEPT ![c] = [NoCall EXCEPT !.op = "Stop", !.ran0 = TRUE]]
       ELSE /\ call' = [call EXCEPT ![c] = [NoCall EXCEPT !.op = "Stop", !.res = "ok"]]
            /\ UNCHANGED <<mu, mpc, cancelled>>
    /\ UNCHANGED <<providerVars, faults, mgrVars, cmdHeld, delivered, hups>>

\* Manager.Stop: Process.Signal(SIGQUIT); when that fails Process.Kill, and
\* when that fails too Stop returns the error.
StopSignal(c) ==
    /\ mpc[c] = "stopSignal"
    /\ \/ /\ child = "alive"
          /\ NoFault
          /\ delivered' = delivered \cup {[sig |-> "QUIT", why |-> "graceful"]}
          /\ mpc' = [mpc EXCEPT ![c] = "stopWait"]
          /\ UNCHANGED <<mgrVars, mu, call>>
       \/ /\ child = "alive"
          /\ Fault
          /\ delivered' = delivered \cup {[sig |-> "KILL", why |-> "fallback"]}
          /\ child' = "dead"
          /\ waitPending' = "nonzero"
          /\ mpc' = [mpc EXCEPT ![c] = "stopWait"]
          /\ UNCHANGED <<mgrRunning, mu, call>>
       \/ /\ child # "alive"
          /\ NoFault
          /\ \E can \in Signallable :
               IF can
               THEN /\ mpc' = [mpc EXCEPT ![c] = "stopWait"]
                    /\ UNCHANGED <<mu, call>>
               ELSE Return(c, "err", "kill")
          /\ UNCHANGED <<mgrVars, delivered>>
    /\ UNCHANGED <<providerVars, cmdHeld, cancelled, hups, calls>>

\* Manager.Stop: the select on the child's exit and time.After(10 s); after the
\* exit running is cleared and the handle dropped.
StopWait(c) ==
    /\ mpc[c] = "stopWait"
    /\ \/ /\ child # "alive"
          /\ NoFault
          /\ mgrRunning' = FALSE
          /\ cmdHeld' = FALSE
          /\ Return(c, "ok", "none")
       \/ /\ child = "alive"
          /\ Fault
          /\ mpc' = [mpc EXCEPT ![c] = "stopKill"]
          /\ call' = [call EXCEPT ![c].timedOut = TRUE]
          /\ UNCHANGED <<mgrRunning, cmdHeld, mu>>
    /\ UNCHANGED <<providerVars, child, waitPending, cancelled, delivered, hups, calls>>

\* Manager.Stop after the timeout: Process.Kill; an error (the process has
\* exited meanwhile and has been waited for) returns at once.
StopKill(c) ==
    /\ mpc[c] = "stopKill"
    /\ NoFault
    /\ \E can \in Signallable :
       IF can
       THEN /\ delivered' = IF child = "alive"
                            THEN delivered \cup {[sig |-> "KILL", why |-> "timeout"]}
                            ELSE delivered
            /\ child' = "dead"
            /\ waitPending' = IF child = "alive" THEN "nonzero" ELSE waitPending
            /\ mgrRunning' = FALSE
            /\ cmdHeld' = FALSE
            /\ Return(c, "ok", "none")
       ELSE /\ Return(c, "err", "kill")
            /\ UNCHANGED <<mgrVars, cmdHeld, delivered>>
    /\ UNCHANGED <<providerVars, cancelled, hups, calls>>

\* exec.CommandContext: once the context is cancelled the command's watcher
\* kills the process.
contextKill ==
    /\ cancelled
    /\ child = "alive"
    /\ child' = "dead"
    /\ waitPending' = "nonzero"
    /\ delivered' = delivered \cup {[sig |-> "KILL", why |-> "context"]}
    /\ UNCHANGED <<providerVars, faults, mgrRunning, mu, mpc, call, cmdHeld, cancelled,
                   hups, calls>>

\* nginx exits with status zero after SIGQUIT.
childQuits ==
    /\ child = "alive"
    /\ [sig |-> "QUIT", why |-> "graceful"] \in delivered
    /\ child' = "dead"
    /\ waitPending' = "zero"
    /\ UNCHANGED <<providerVars, faults, mgrRunning, callVars>>

\* A manager after NewManager, called by its callers in any order.
NextManager ==
    \/ \E c \in Callers : StartLock(c)
    \/ \E c \in Callers : StartRun(c)
    \/ \E c \in Callers : ReloadLock(c)
    \/ \E c \in Callers : ReloadTest(c)
    \/ \E c \in Callers : ReloadSignal(c)
    \/ \E c \in Callers : StopLock(c)
    \/ \E c \in Callers : StopSignal(c)
    \/ \E c \in Callers : StopWait(c)
    \/ \E c \in Callers : StopKill(c)
    \/ contextKill
    \/ childQuits
    \/ ChildExit
    \/ monitor

SpecManager == Init /\ [][NextManager]_vars

\* ---------------------------------------------------------------- breaker runs

\* What the breaker runs leave alone.
outsideBreaker == <<running, events, subscribed, ops, faults, containers, lastConfig,
                    pc, cfg, tries, startTries, restarted, live, tmp, mgrRunning,
                    child, waitPending, mainPc, log, prevPass, followUps, handled,
                    cbHolder, mu, mpc, call, cmdHeld, cancelled, delivered, hups,
                    calls, rsnap, rout, rpc, sideVars>>

RECURSIVE MutAttempt(_, _, _, _)
\* The retry loop stopping one invocation early.
MutAttempt(outs, retry, attempt, lastErr) ==
    IF attempt >= retry /\ attempt > 0
    THEN [invoked |-> attempt, ok |-> FALSE, cause |-> lastErr]
    ELSE IF outs[attempt + 1]
    THEN [invoked |-> attempt + 1, ok |-> TRUE, cause |-> 0]
    ELSE MutAttempt(outs, retry, attempt + 1, attempt + 1)

RECURSIVE Attempt(_, _, _, _)
\* HandleWithRetry's loop `for attempt := 0; attempt <= eh.retryAttempts;
\* attempt++`: an invocation that returns nil ends the loop with nil, one that
\* returns an error becomes lastErr; after the loop lastErr is returned.
Attempt(outs, retry, attempt, lastErr) ==
    IF attempt > retry
    THEN [invoked |-> attempt, ok |-> FALSE, cause |-> lastErr]
    ELSE IF outs[attempt + 1]
    THEN [invoked |-> attempt + 1, ok |-> TRUE, cause |-> 0]
    ELSE Attempt(outs, retry, attempt + 1, attempt + 1)

\* One call of CircuitBreaker.Execute whose operation makes the invocations
\* `run` describes, as seen in the record of the runs.
Ran(kind, outs, run) ==
    LET b == Admit(cb)
    IN  /\ ex.n < MaxExec
        /\ cb' = IF b.state = "Open" THEN b
                 ELSE IF run.ok THEN OnSuccess(b)
                 ELSE OnFailure(b)
        /\ ex' = [ex EXCEPT
                    !.n = @ + 1,
                    !.kind = kind,
                    !.outs = outs,
                    !.half = (b.state = "HalfOpen"),
                    !.invoked = IF b.state = "Open" THEN 0 ELSE run.invoked,
                    !.res = IF b.state = "Open" THEN "open"
                            ELSE IF run.ok THEN "ok" ELSE "err",
                    !.cause = IF b.state = "Open" \/ run.ok THEN 0 ELSE run.cause,
                    !.streak = IF b.state = "Open" THEN @
                               ELSE IF run.ok THEN 0 ELSE @ + 1]
        /\ UNCHANGED outsideBreaker

\* CircuitBreaker.Execute on an operation that returns nil (ok) or an error.
Execute(ok) ==
    Ran("execute", <<ok>>, [invoked |-> 1, ok |-> ok, cause |-> 1])

\* ErrorHandler.HandleWithRetry on an operation whose i-th invocation returns
\* nil iff outs[i]: the retry loop runs as the operation of Execute.
HandleWithRetry(outs) ==
    Ran("retry", outs, Attempt(outs, ex.retry, 0, 0))

\* A breaker after NewCircuitBreaker(threshold, timeout) in a handler after
\* SetRetryConfig(retry, delay).
InitBreaker ==
    /\ \E threshold \in 1..MaxThreshold, retry \in 0..MaxRetry : InitWith(threshold, retry)
    /\ rsnap = <<>>
    /\ rout = <<<<>>, <<>>>>
    /\ rpc = 0
    /\ InitSide
    /\ InitPure

NextBreaker ==
    \/ \E ok \in BOOLEAN : Execute(ok)
    \/ \E outs \in [1..(ex.retry + 1) -> BOOLEAN] : HandleWithRetry(outs)
    \/ timeoutElapsed

SpecBreaker == InitBreaker /\ [][NextBreaker]_vars

\* ---------------------------------------------------------------- renderer runs

\* The variables of the controller, which the renderer runs leave alone.
controllerVars == <<running, events, subscribed, ops, faults, containers, lastConfig,
                    pc, cfg, tries, startTries, restarted, live, tmp, mgrRunning,
                    child, waitPending, mainPc, log, prevPass, followUps, handled,
                    cb, cbHolder, mu, mpc, call, cmdHeld, cancelled, delivered,
                    hups, calls, ex>>

\* The snapshots handed to the renderer: up to MaxSnapshot labelled containers
\* of the fixture, in the order the runtime lists them.
Snapshots ==
    {InRankOrder(S) : S \in {T \in SUBSET {c \in Range(ListContainers(Fixture, {})) :
                                              /\ Labels[c].snippet = <<>>
                                              /\ Labels[c].paramsFile = <<>>} :
                                Cardinality(T) <= MaxSnapshot}}

InitRender ==
    /\ InitController
    /\ rsnap \in Snapshots
    /\ rout = <<<<>>, <<>>>>
    /\ rpc = 0
    /\ InitSide
    /\ InitPure

\* One run of GenerateNginxConfig and RenderNginxConfig on the snapshot.
RenderRun ==
    /\ rpc < 2
    /\ \E order \in HostOrders(rsnap) :
         rout' = [rout EXCEPT ![rpc + 1] =
                     RenderNginxConfig(GenerateNginxConfig(rsnap, order, {}))]
    /\ rpc' = rpc + 1
    /\ UNCHANGED <<controllerVars, rsnap, sideVars>>

NextRender == RenderRun

SpecRender == InitRender /\ [][NextRender]_vars

\* ---------------------------------------------------------------- background tasks

\* A deferred call.  recovers: the function reaches a call of recover(); depth:
\* the calls between the deferred function and that recover() (0: the deferred
\* function calls it itself); critical: what it recovers is handed to
\* ErrorHandler.Handle as a Critical error; done: it calls waitGroup.Done.

\* defer errors.Recover(component): errors.Recover calls
\* DefaultHandler.Recover, and that method calls recover().
ErrorsRecover ==
    [fn |-> "errors.Recover", recovers |-> TRUE, depth |-> 1, critical |-> TRUE,
     done |-> FALSE]

\* defer p.waitGroup.Done() in Pool.GoCtx.
WaitGroupDone ==
    [fn |-> "waitGroup.Done", recovers |-> FALSE, depth |-> 0, critical |-> FALSE,
     done |-> TRUE]

\* The deferred closure of GoWithRecover: it calls recover() itself and hands
\* the value to defaultRecoverGoroutine, which writes two log lines.
RecoverClosure ==
    [fn |-> "GoWithRecover", recovers |-> TRUE, depth |-> 0, critical |-> FALSE,
     done |-> FALSE]

\* The deferred calls of task t when it panics in its innermost function,
\* innermost first.
Deferred(t) ==
    CASE t = "provider"     -> <<ErrorsRecover, ErrorsRecover, WaitGroupDone, RecoverClosure>>
      [] t = "worker"       -> <<WaitGroupDone, RecoverClosure>>
      [] t = "events"       -> <<ErrorsRecover, ErrorsRecover>>
      [] t = "monitor"      -> <<ErrorsRecover>>
      [] t = "probe"        -> <<ErrorsRecover, ErrorsRecover>>
      [] OTHER              -> <<ErrorsRecover>>

\* recover() stops a panic only when the deferred function itself calls it;
\* anywhere deeper it returns nil.
Recovers(frame) == frame.recovers /\ frame.depth = 0

\* NewErrorHandler sets exitOnCritical; DefaultHandler is never reconfigured.
DefaultExitOnCritical == TRUE

\* The goroutine runs its deferred calls.  panicking: a panic is unwinding the
\* stack; dones: calls of waitGroup.Done made; critical: the panic was reported
\* as Critical; exit: Handle called os.Exit.
RECURSIVE Unwind(_, _)
Unwind(frames, st) ==
    IF frames = <<>> THEN st
    ELSE LET f == Head(frames)
             st1 == IF f.done THEN [st EXCEPT !.dones = @ + 1]
                    ELSE IF st.panicking /\ Recovers(f)
                    THEN [st EXCEPT !.panicking = FALSE,
                                    !.critical = f.critical,
                                    !.exit = f.critical /\ DefaultExitOnCritical]
                    ELSE st
         IN  IF st1.exit THEN st1 ELSE Unwind(Tail(frames), st1)

Unwinding(panicking) ==
    [panicking |-> panicking, dones |-> 0, critical |-> FALSE, exit |-> FALSE]

\* Pool.GoCtx: waitGroup.Add(1), then the goroutine is started under
\* GoWithRecover.
GoCtx(t) ==
    /\ process = "running"
    /\ pool.stop = "idle"
    /\ goroutine[t] = "off"
    /\ goroutine' = [goroutine EXCEPT ![t] = "running"]
    /\ pool' = [pool EXCEPT !.waitGroup = @ + 1]
    /\ UNCHANGED <<controllerVars, renderVars, pureVars, healthVars, snippetVars, process, criticals>>

\* One of the plain `go` statements: go p.processEvents(), go m.monitor(),
\* go hm.monitorComponent(component) and the go func() of HealthMonitor.Start.
GoTask(t) ==
    /\ process = "running"
    /\ goroutine[t] = "off"
    /\ goroutine' = [goroutine EXCEPT ![t] = "running"]
    /\ UNCHANGED <<controllerVars, renderVars, pureVars, healthVars, snippetVars, process,
                   criticals, pool>>

\* The function of task t returns: its deferred calls run.
TaskReturns(t) ==
    /\ process = "running"
    /\ goroutine[t] = "running"
    /\ goroutine' = [goroutine EXCEPT ![t] = "returned"]
    /\ pool' = [pool EXCEPT !.waitGroup =
                   @ - Unwind(Deferred(t), Unwinding(FALSE)).dones]
    /\ UNCHANGED <<controllerVars, renderVars, pureVars, healthVars, snippetVars, process,
                   criticals>>

\* Task t panics: its deferred calls run; a panic that none of them stops ends
\* the process, and so does a Critical error handled by the default handler.
Panic(t) ==
    /\ process = "running"
    /\ goroutine[t] = "running"
    /\ LET out == Unwind(Deferred(t), Unwinding(TRUE))
       IN  /\ goroutine' = [goroutine EXCEPT ![t] =
                               IF out.panicking THEN "panicked" ELSE "recovered"]
           /\ process' = IF out.panicking THEN "crashed"
                         ELSE IF out.exit THEN "exited"
                         ELSE "running"
           /\ criticals' = IF out.critical THEN criticals \cup {t} ELSE criticals
           /\ pool' = [pool EXCEPT !.waitGroup = @ - out.dones]
    /\ UNCHANGED <<controllerVars, renderVars, pureVars, healthVars, snippetVars>>

\* A Stop that does not wait for the WaitGroup.
MutPoolWait ==
    /\ process = "running"
    /\ pool.stop = "waiting"
    /\ pool' = [pool EXCEPT !.stop = "returned"]
    /\ UNCHANGED <<controllerVars, renderVars, pureVars, healthVars, snippetVars, goroutine,
                   process, criticals>>

\* Pool.Stop, first statement: p.cancel().
PoolStop ==
    /\ process = "running"
    /\ pool.stop = "idle"
    /\ pool' = [pool EXCEPT !.cancelled = TRUE, !.stop = "waiting"]
    /\ UNCHANGED <<controllerVars, renderVars, pureVars, healthVars, snippetVars, goroutine,
                   process, criticals>>

\* Pool.Stop, second statement: p.waitGroup.Wait() returns once the counter is
\* zero, and Stop returns.
PoolWait ==
    /\ process = "running"
    /\ pool.stop = "waiting"
    /\ pool.waitGroup = 0
    /\ pool' = [pool EXCEPT !.stop = "returned"]
    /\ UNCHANGED <<controllerVars, renderVars, pureVars, healthVars, snippetVars, goroutine,
                   process, criticals>>

NextTasks ==
    \/ \E t \in PoolTasks : GoCtx(t)
    \/ \E t \in Tasks \ PoolTasks : GoTask(t)
    \/ \E t \in Tasks : TaskReturns(t)
    \/ \E t \in Tasks : Panic(t)
    \/ PoolStop
    \/ PoolWait

\* The background tasks of the controller and the pool main hands the
\* provider start task to.
SpecTasks == Init /\ [][NextTasks]_vars

\* ---------------------------------------------------------------- health monitor

\* The components main registers.
ComponentNames == {"docker", "nginx"}

\* checkComponent that leaves the Status alone when the probe succeeds.
MutCheckComponent(n, ok) ==
    /\ n \in DOMAIN components
    /\ probes < MaxProbes
    /\ probes' = probes + 1
    /\ LET c == components[n]
           count == c.ErrorCount + 1
       IN  components' =
               [components EXCEPT ![n] =
                   IF ok THEN [c EXCEPT !.ErrorCount = 0]
                   ELSE [Status |-> IF count >= UnhealthyAt THEN "Unhealthy"
                                    ELSE IF count >= DegradedAt THEN "Degraded"
                                    ELSE c.Status,
                         ErrorCount |-> count]]
    /\ streak' = [streak EXCEPT ![n] = IF ok THEN 0 ELSE @ + 1]
    /\ UNCHANGED <<controllerVars, renderVars, pureVars, taskVars, snippetVars, response>>

\* HealthMonitor.RegisterComponent: a new record, Healthy with no error,
\* stored under the name.
RegisterComponent(n) ==
    /\ components' = [m \in DOMAIN components \cup {n} |->
                         IF m = n THEN [Status |-> "Healthy", ErrorCount |-> 0]
                         ELSE components[m]]
    /\ streak' = [m \in DOMAIN components \cup {n} |-> IF m = n THEN 0 ELSE streak[m]]
    /\ UNCHANGED <<controllerVars, renderVars, pureVars, taskVars, snippetVars, response, probes>>

\* HealthMonitor.checkComponent with the result of the probe (ok: the checker
\* returned nil).
checkComponent(n, ok) ==
    /\ n \in DOMAIN components
    /\ probes < MaxProbes
    /\ probes' = probes + 1
    /\ LET c == components[n]
           count == c.ErrorCount + 1
       IN  components' =
               [components EXCEPT ![n] =
                   IF ok THEN [Status |-> "Healthy", ErrorCount |-> 0]
                   ELSE [Status |-> IF count >= UnhealthyAt THEN "Unhealthy"
                                    ELSE IF count >= DegradedAt THEN "Degraded"
                                    ELSE c.Status,
                         ErrorCount |-> count]]
    /\ streak' = [streak EXCEPT ![n] = IF ok THEN 0 ELSE @ + 1]
    /\ UNCHANGED <<controllerVars, renderVars, pureVars, taskVars, snippetVars, response>>

\* An overall status that is the Status of the component visited first.
MutGetOverallHealth(comps, order) ==
    IF order = <<>> THEN "Healthy" ELSE comps[order[1]].Status

\* The loop of GetOverallHealth from the i-th component of `order` on, with
\* overallStatus as it stands.
RECURSIVE OverallFrom(_, _, _, _)
OverallFrom(comps, order, i, overallStatus) ==
    IF i > Len(order) THEN overallStatus
    ELSE IF comps[order[i]].Status = "Unhealthy" THEN "Unhealthy"
    ELSE OverallFrom(comps, order, i + 1,
                     IF comps[order[i]].Status = "Degraded" THEN "Degraded"
                     ELSE overallStatus)

\* HealthMonitor.GetOverallHealth; `order` is the order in which the range over
\* the components map visits them.
GetOverallHealth(comps, order) == OverallFrom(comps, order, 1, "Healthy")

\* HealthMonitor.healthHandler: GET /health.
healthHandler ==
    /\ \E order \in Perms(DOMAIN components) :
         LET status == GetOverallHealth(components, order)
         IN  response' =
                 [code   |-> IF status = "Unhealthy" THEN 503 ELSE 200,
                  status |-> CASE status = "Healthy"  -> "healthy"
                               [] status = "Degraded" -> "degraded"
                               [] OTHER               -> "unhealthy",
                  seen   |-> {components[n].Status : n \in DOMAIN components}]
    /\ UNCHANGED <<controllerVars, renderVars, pureVars, taskVars, snippetVars, components,
                   streak, probes>>

NextHealth ==
    \/ \E n \in ComponentNames : RegisterComponent(n)
    \/ \E n \in ComponentNames, ok \in BOOLEAN : checkComponent(n, ok)
    \/ healthHandler

\* The health monitor: registrations, probe results and requests of /health.
SpecHealth == Init /\ [][NextHealth]_vars

\* ---------------------------------------------------------------- loader calls

\* The paths handed to the loaders: allowed ones, and ones with "..", under
\* /etc/ or /var/, or with a suffix other than .conf and .txt.
Paths ==
    {LocationConf, FastcgiConf,
     <<"/", "app", "/", "notes", ".txt">>,
     <<"/", "app", "/", "etc", "/", "site", ".conf">>,
     <<"etc", "/", "site", ".conf">>,
     <<"/", "app", "/", "..", "/", "secret", ".conf">>,
     <<"/", "app", "/", "a", "..", "b", ".conf">>,
     <<"/", "etc", "/", "nginx", "/", "nginx", ".conf">>,
     <<"/", "etc", "/", "passwd">>,
     <<"/", "var", "/", "log", "/", "access", ".txt">>,
     <<"/", "app", "/", "fastcgi", ".params">>,
     <<"/", "app", "/", "run", ".sh">>,
     <<"/", "app", "/", "site", ".conf", ".bak">>}

\* The containers the loaders are called for.
Owners == {"blog", "php"}

\* A call of DownloadSnippet (from DownloadAllSnippets) for path p of container
\* c; a downloaded file is written to the cache.
snippetCall(c, p) ==
    /\ loads < MaxLoads
    /\ loads' = loads + 1
    /\ \E fetchOk \in BOOLEAN :
         LET out == DownloadSnippet(p, CacheKey(c, p) \in cache, fetchOk)
         IN  /\ fetched' = [op |-> "DownloadSnippet", path |-> p, res |-> out.res,
                            cacheRead |-> out.cacheRead, copied |-> out.copied]
             /\ cache' = IF out.copied /\ out.res = "ok"
                         THEN cache \cup {CacheKey(c, p)} ELSE cache
    /\ UNCHANGED <<controllerVars, renderVars, pureVars, taskVars, healthVars>>

\* A call of loadParamsFromFile (from LoadFastCGIParams) for path p of
\* container c.
paramsCall(c, p) ==
    /\ loads < MaxLoads
    /\ loads' = loads + 1
    /\ \E fetchOk \in BOOLEAN :
         LET out == loadParamsFromFile(p, CacheKey(c, p) \in cache, fetchOk)
         IN  /\ fetched' = [op |-> "loadParamsFromFile", path |-> p, res |-> out.res,
                            cacheRead |-> out.cacheRead, copied |-> out.copied]
             /\ cache' = IF out.copied /\ out.res = "ok"
                         THEN cache \cup {CacheKey(c, p)} ELSE cache
    /\ UNCHANGED <<controllerVars, renderVars, pureVars, taskVars, healthVars>>

NextSnippet ==
    \/ \E c \in Owners, p \in Paths : snippetCall(c, p)
    \/ \E c \in Owners, p \in Paths : paramsCall(c, p)

\* The snippet loaders called with paths of every kind.
SpecSnippet == Init /\ [][NextSnippet]_vars

\* ---------------------------------------------------------------- parameter runs

\* Parameter names: the two the validation requires, one more with a default
\* and one without.
ParamNames == {"SCRIPT_FILENAME", "REQUEST_METHOD", "QUERY_STRING", "APP_ENV"}

\* Parameter values as labels and files of the fixture give them.
ParamValues == {"a", "b"}

\* The maps from some parameter names to values.
ParamMaps == UNION {[S -> ParamValues] : S \in SUBSET ParamNames}

\* The `defaults` map of addDefaultPHPParams, on ParamNames.
DefaultPHPParams ==
    [k \in {"SCRIPT_FILENAME", "REQUEST_METHOD", "QUERY_STRING"} |->
        CASE k = "SCRIPT_FILENAME" -> "$document_root$fastcgi_script_name"
          [] k = "REQUEST_METHOD"  -> "$request_method"
          [] OTHER                 -> "$query_string"]

\* for key, value := range src { dst[key] = value }
Assign(dst, src) ==
    [k \in DOMAIN dst \cup DOMAIN src |-> IF k \in DOMAIN src THEN src[k] ELSE dst[k]]

\* A loop that adds every default, also over a key that is set.
MutAddDefaultPHPParams(params) == Assign(params, DefaultPHPParams)

\* addDefaultPHPParams: a default is added only for a key that is not set.
addDefaultPHPParams(params) ==
    [k \in DOMAIN params \cup DOMAIN DefaultPHPParams |->
        IF k \in DOMAIN params THEN params[k] ELSE DefaultPHPParams[k]]

\* The map LoadFastCGIParams returns when it returns no error: the label
\* parameters, then the file's over them, then the defaults.
ParamsOfLabelsAndFile(labelParams, hasFile, fileParams) ==
    addDefaultPHPParams(IF hasFile THEN Assign(labelParams, fileParams) ELSE labelParams)

\* ValidateFastCGIParams returns nil.
ValidateFastCGIParams(params) ==
    \A param \in {"SCRIPT_FILENAME", "REQUEST_METHOD"} : param \in DOMAIN params

InitParams ==
    /\ InitController
    /\ rsnap = <<>>
    /\ rout = <<<<>>, <<>>>>
    /\ rpc = 0
    /\ InitSide
    /\ sorting = NoSort
    /\ eh = NoHandlerRun
    /\ hmu = NoHealthLock
    /\ cmp = NoComparison
    /\ \E labelParams \in ParamMaps, fileParams \in ParamMaps, hasFile, fileErr \in BOOLEAN :
          /\ ~hasFile => fileParams = <<>> /\ ~fileErr
          /\ fileErr => fileParams = <<>>
          /\ fcgi = [NoParams EXCEPT !.labels = labelParams, !.hasFile = hasFile,
                                     !.file = fileParams, !.fileErr = fileErr]

\* One call of LoadFastCGIParams on the config of a FastCGI route.
LoadParamsRun ==
    /\ fcgi.res = "none"
    /\ fcgi' = IF fcgi.hasFile /\ fcgi.fileErr
               THEN [fcgi EXCEPT !.res = "err"]
               ELSE [fcgi EXCEPT !.res = "ok",
                                 !.params = ParamsOfLabelsAndFile(fcgi.labels, fcgi.hasFile,
                                                                  fcgi.file)]
    /\ UNCHANGED <<controllerVars, renderVars, taskVars, healthVars, snippetVars,
                   sorting, eh, hmu, cmp>>

NextParams == LoadParamsRun

SpecParams == InitParams /\ [][NextParams]_vars

\* ---------------------------------------------------------------- sort runs

\* The locations handed to the sort: every priority and path of the fixture's
\* routes, for two upstreams.
SortLocations ==
    [Path : {"/", "/api", "/docs"}, Priority : {100, 200}, Upstream : {"u1", "u2"}]

\* The slices of up to MaxLocations locations.
SortInputs == UNION {[1..n -> SortLocations] : n \in 0..MaxLocations}

InitSort ==
    /\ InitController
    /\ rsnap = <<>>
    /\ rout = <<<<>>, <<>>>>
    /\ rpc = 0
    /\ InitSide
    /\ fcgi = NoParams
    /\ eh = NoHandlerRun
    /\ hmu = NoHealthLock
    /\ cmp = NoComparison
    /\ \E locs \in SortInputs : sorting = [NoSort EXCEPT !.input = locs, !.locations = locs]

\* One call of sortLocationsByPriority: sort.Slice works on `sorted`, the copy
\* of the caller's slice.
SortRun ==
    /\ ~sorting.done
    /\ sorting' = [sorting EXCEPT !.sorted = sortLocationsByPriority(sorting.locations),
                                  !.locations = sorting.locations,
                                  !.done = TRUE]
    /\ UNCHANGED <<controllerVars, renderVars, taskVars, healthVars, snippetVars, fcgi,
                   eh, hmu, cmp>>

NextSort == SortRun

SpecSort == InitSort /\ [][NextSort]_vars

\* ---------------------------------------------------------------- handler runs

\* The operations the provider and the Manager run under HandleWithRetry:
\* writeConfigFile, testNginxConfig / testConfig and reloadNginx.
Operations == {"write", "test", "reload"}

\* The operation calls Info or Warning of the handler it runs under:
\* testNginxConfig and testConfig call Warning when the test fails, reloadNginx
\* calls Info on success and Warning on failure, writeConfigFile calls nothing.
Reports(op, ok) == op = "reload" \/ (op = "test" /\ ~ok)

\* What the rest of the handler runs leaves alone.
outsideHandler == <<controllerVars, renderVars, taskVars, healthVars, snippetVars,
                    fcgi, sorting, hmu, cmp>>

InitHandler ==
    /\ InitController
    /\ rsnap = <<>>
    /\ rout = <<<<>>, <<>>>>
    /\ rpc = 0
    /\ InitSide
    /\ fcgi = NoParams
    /\ sorting = NoSort
    /\ hmu = NoHealthLock
    /\ cmp = NoComparison
    /\ eh = [NoHandlerRun EXCEPT !.breaker = NewCircuitBreaker(FailureThreshold)]

\* More than five minutes have passed since ErrorHandler.lastResetTime.
FiveMinutesPass ==
    /\ ~eh.due
    /\ eh' = [eh EXCEPT !.due = TRUE]
    /\ UNCHANGED outsideHandler

\* More than the breaker's timeout has passed since its lastFailureTime.
BreakerTimeout ==
    /\ eh.breaker.state = "Open"
    /\ ~eh.breaker.expired
    /\ eh' = [eh EXCEPT !.breaker.expired = TRUE]
    /\ UNCHANGED outsideHandler

\* HandleWithRetry calls CircuitBreaker.Execute: cb.mu.Lock(), kept until
\* Execute returns; an Open breaker returns an error without invoking.
EnterExecute(op) ==
    /\ eh.pc = "idle"
    /\ eh.runs < MaxRuns
    /\ eh.lock = "none"
    /\ eh' = IF Rejects(eh.breaker)
             THEN [eh EXCEPT !.pc = "handle", !.op = op, !.ok = FALSE,
                             !.breaker = Admit(eh.breaker), !.runs = @ + 1]
             ELSE [eh EXCEPT !.pc = "operation", !.op = op, !.attempt = 0,
                             !.lock = "Execute", !.breaker = Admit(eh.breaker),
                             !.runs = @ + 1]
    /\ UNCHANGED outsideHandler

\* The retry loop and Execute after an invocation returned.
Invoked(h, ok) ==
    IF ok
    THEN [h EXCEPT !.pc = "handle", !.ok = TRUE, !.lock = "none",
                   !.breaker = OnSuccess(h.breaker)]
    ELSE IF h.attempt < RetryAttempts
    THEN [h EXCEPT !.pc = "operation", !.attempt = @ + 1]
    ELSE [h EXCEPT !.pc = "handle", !.ok = FALSE, !.lock = "none",
                   !.breaker = OnFailure(h.breaker)]

\* ErrorHandler.Handle up to its call of circuitBreaker.Reset: errorCount++,
\* and when the reset is due errorCount = 0 and lastResetTime = now.
Handle(h) ==
    IF h.due THEN [h EXCEPT !.errorCount = 0, !.due = FALSE, !.pc = "reset"]
    ELSE [h EXCEPT !.errorCount = @ + 1]

\* One invocation of the operation inside Execute.  An operation that reports
\* calls Handle before it returns; when the reset is due Handle goes on to
\* circuitBreaker.Reset.
Invoke(ok) ==
    /\ eh.pc = "operation"
    /\ eh' = IF Reports(eh.op, ok)
             THEN IF eh.due
                  THEN [Handle(eh) EXCEPT !.inside = TRUE, !.ok = ok]
                  ELSE Invoked(Handle(eh), ok)
             ELSE Invoked(eh, ok)
    /\ UNCHANGED outsideHandler

\* CircuitBreaker.Reset: cb.mu.Lock(), state = Closed, failureCount = 0,
\* Unlock; the caller goes on after Handle.
Reset ==
    /\ eh.pc = "reset"
    /\ eh.lock = "none"
    /\ eh' = LET h == [eh EXCEPT !.breaker.state = "Closed", !.breaker.failureCount = 0,
                                 !.inside = FALSE]
             IN  IF eh.inside THEN Invoked(h, eh.ok)
                 ELSE [h EXCEPT !.pc = "idle", !.res = "err"]
    /\ UNCHANGED outsideHandler

\* HandleWithRetry after Execute returned: on an error errorCount++ and
\* Handle(finalErr), on success errorCount = 0.
AfterExecute ==
    /\ eh.pc = "handle"
    /\ eh' = IF eh.ok
             THEN [eh EXCEPT !.pc = "idle", !.res = "ok", !.errorCount = 0]
             ELSE LET h == Handle([eh EXCEPT !.errorCount = @ + 1])
                  IN  IF h.pc = "reset" THEN h
                      ELSE [h EXCEPT !.pc = "idle", !.res = "err"]
    /\ UNCHANGED outsideHandler

NextHandler ==
    \/ FiveMinutesPass
    \/ BreakerTimeout
    \/ \E op \in Operations : EnterExecute(op)
    \/ \E ok \in BOOLEAN : Invoke(ok)
    \/ Reset
    \/ AfterExecute

\* Calls of HandleWithRetry on one ErrorHandler, with the clock running.
SpecHandler == InitHandler /\ [][NextHandler]_vars

\* ---------------------------------------------------------------- health lock

\* The goroutines that take HealthMonitor.mu for writing: a monitorComponent
\* goroutine in checkComponent, and main in RegisterComponent.
Writers == {"probe", "register"}

\* What the steps at the lock leave alone.
outsideHealthLock == <<controllerVars, renderVars, taskVars, healthVars, snippetVars,
                       fcgi, sorting, eh, cmp>>

\* sync.RWMutex.RLock returns: no writer holds the lock and none is inside
\* Lock() (a waiting writer keeps new readers out).
CanRLock == hmu.writer = "none" /\ hmu.waiting = {}

\* Writer w calls hm.mu.Lock().
Lock(w) ==
    /\ w \notin hmu.waiting
    /\ hmu.writer # w
    /\ IF w = "probe" THEN DOMAIN components # {} /\ probes < MaxProbes
       ELSE DOMAIN components # ComponentNames
    /\ hmu' = [hmu EXCEPT !.waiting = @ \cup {w}]
    /\ UNCHANGED outsideHealthLock

\* Lock() returns to writer w: no reader and no writer holds the lock.
Locked(w) ==
    /\ w \in hmu.waiting
    /\ hmu.readers = 0
    /\ hmu.writer = "none"
    /\ hmu' = [hmu EXCEPT !.waiting = @ \ {w}, !.writer = w, !.at = probes,
                          !.dom = DOMAIN components]
    /\ UNCHANGED outsideHealthLock

\* The writer has not yet run the body of its function under the lock.
BodyPending == hmu.at = probes /\ hmu.dom = DOMAIN components

\* defer hm.mu.Unlock() of checkComponent and RegisterComponent.
Unlock(w) ==
    /\ hmu.writer = w
    /\ ~BodyPending
    /\ hmu' = [hmu EXCEPT !.writer = "none"]
    /\ UNCHANGED outsideHealthLock

\* detailedHealthHandler: hm.mu.RLock().
HandlerRLock ==
    /\ hmu.handler = "idle"
    /\ hmu.requests < MaxRequests
    /\ CanRLock
    /\ hmu' = [hmu EXCEPT !.handler = "outer", !.readers = @ + 1]
    /\ UNCHANGED outsideHealthLock

\* detailedHealthHandler calls GetOverallHealth: hm.mu.RLock() again.
OverallRLock ==
    /\ hmu.handler = "outer"
    /\ CanRLock
    /\ hmu' = [hmu EXCEPT !.handler = "inner", !.readers = @ + 1]
    /\ UNCHANGED outsideHealthLock

\* GetOverallHealth computes the status and returns (defer RUnlock).
OverallReturns ==
    /\ hmu.handler = "inner"
    /\ \E order \in Perms(DOMAIN components) :
         hmu' = [hmu EXCEPT !.handler = "respond", !.readers = @ - 1,
                            !.overall = GetOverallHealth(components, order)]
    /\ UNCHANGED outsideHealthLock

\* detailedHealthHandler writes the response and returns (defer RUnlock).
HandlerReturns ==
    /\ hmu.handler = "respond"
    /\ hmu' = [hmu EXCEPT !.handler = "idle", !.readers = @ - 1, !.requests = @ + 1]
    /\ UNCHANGED outsideHealthLock

NextHealthLock ==
    \/ \E w \in Writers : Lock(w)
    \/ \E w \in Writers : Locked(w)
    \/ \E n \in ComponentNames :
          hmu.writer = "register" /\ BodyPending /\ n \notin DOMAIN components
          /\ RegisterComponent(n)
    \/ \E n \in ComponentNames, ok \in BOOLEAN :
          hmu.writer = "probe" /\ BodyPending /\ checkComponent(n, ok)
    \/ \E w \in Writers : Unlock(w)
    \/ HandlerRLock
    \/ OverallRLock
    \/ OverallReturns
    \/ HandlerReturns

\* The health monitor with its lock: registrations, probes and requests of
\* /health/detailed, each step at the lock on its own.
SpecHealthLock == Init /\ [][NextHealthLock]_vars

\* ---------------------------------------------------------------- comparison runs

\* RenderNginxConfig with the template path: the text and the error.  When
\* loadTemplate finds no file the text is the empty string; a rendered text
\* starts with the template's own lines and is never empty.
RenderNginxConfigFrom(config, template) ==
    IF template = "found"
    THEN [text |-> <<"nginx.conf", RenderNginxConfig(config)>>, err |-> FALSE]
    ELSE [text |-> <<>>, err |-> TRUE]

\* Provider.configEquals with the template path: aStr, _ := ...; bStr, _ := ...
configEqualsFrom(a, b, template) ==
    IF a.isNil /\ b.isNil THEN TRUE
    ELSE IF a.isNil \/ b.isNil THEN FALSE
    ELSE RenderNginxConfigFrom(a, template).text = RenderNginxConfigFrom(b, template).text

\* The configs a pass can generate from a snapshot.
SnapshotConfigs ==
    UNION {{GenerateNginxConfig(cs, order, {}) : order \in HostOrders(cs)} : cs \in Snapshots}

\* What the comparison runs leave alone.
outsideComparison == <<controllerVars, renderVars, taskVars, healthVars, snippetVars,
                       fcgi, sorting, eh, hmu>>

InitComparison ==
    /\ InitController
    /\ rsnap = <<>>
    /\ rout = <<<<>>, <<>>>>
    /\ rpc = 0
    /\ InitSide
    /\ fcgi = NoParams
    /\ sorting = NoSort
    /\ eh = NoHandlerRun
    /\ hmu = NoHealthLock
    /\ \E config \in SnapshotConfigs, last \in SnapshotConfigs \cup {NilConfig} :
         cmp = [NoComparison EXCEPT !.config = config, !.last = last, !.pc = "compare"]

\* The template file is removed, or put back.
TemplateChanges ==
    /\ cmp.changes < MaxTemplateChanges
    /\ cmp.pc \in {"compare", "write"}
    /\ cmp' = [cmp EXCEPT !.changes = @ + 1,
                          !.template = IF @ = "found" THEN "missing" ELSE "found"]
    /\ UNCHANGED outsideComparison

\* loadConfiguration: if p.configEquals(config, p.lastConfig) { ... return nil }
Compare ==
    /\ cmp.pc = "compare"
    /\ LET same == configEqualsFrom(cmp.config, cmp.last, cmp.template)
           rendered == ~cmp.config.isNil /\ ~cmp.last.isNil
       IN  cmp' = [cmp EXCEPT
                      !.errA = rendered /\ RenderNginxConfigFrom(cmp.config, cmp.template).err,
                      !.errB = rendered /\ RenderNginxConfigFrom(cmp.last, cmp.template).err,
                      !.pc = IF same THEN "done" ELSE "write",
                      !.res = IF same THEN "skipped" ELSE "none"]
    /\ UNCHANGED outsideComparison

\* One call of writeConfigFile by HandleWithRetry: it renders first and
\* returns the render's error; after RetryAttempts failed calls the pass
\* returns the error.
WriteAttempt ==
    /\ cmp.pc = "write"
    /\ IF ~RenderNginxConfigFrom(cmp.config, cmp.template).err
       THEN cmp' = [cmp EXCEPT !.pc = "done", !.res = "updated", !.attempt = @ + 1]
       ELSE IF cmp.attempt + 1 = RetryAttempts
            THEN cmp' = [cmp EXCEPT !.pc = "done", !.res = "error", !.attempt = @ + 1]
            ELSE cmp' = [cmp EXCEPT !.attempt = @ + 1]
    /\ UNCHANGED outsideComparison

NextComparison ==
    \/ TemplateChanges
    \/ Compare
    \/ WriteAttempt

\* One pass from the comparison on, for every generated config, every last
\* config and a template file that comes and goes.
SpecComparison == InitComparison /\ [][NextComparison]_vars

\* ---------------------------------------------------------------- properties

\* Goroutine t runs a pass or has just returned from one.
AtPass(t) == pc[t] \in PassSteps \cup {"ret"}

\* The pass of goroutine t is past the unchanged check.
PastCheck(t) == AtPass(t) /\ log.ran /\ pc[t] \notin {"list", "generate"}

\* C1: after the last delivered event is processed, the Watcher's container set
\* equals a fresh enumeration of the runtime filtered by the reserved prefix.
C1_SetConsistency ==
    (subscribed /\ handled /\ pc["loop"] = "select" /\ events = <<>>)
        => containers = ListContainers(running, {})

Triggers ==
    IF Head(events).action = "start"
    THEN hasNginxLabels(Head(events).id) /\ faults' = faults
    ELSE Head(events).id \in Range(containers)

C4_LiveFileAtomic ==
    /\ live.whole
    /\ \A t \in Threads :
          (AtPass(t) /\ log.ran) =>
              \/ live = log.prevLive
              \/ live = Whole(RenderNginxConfig(cfg[t]))

C4_PartialTempDuringCommit ==
    /\ \E t \in Threads : pc[t] \in {"writeTemp", "ret"} /\ log.wrote
    /\ tmp.exists /\ ~tmp.whole
    /\ live.exists

\* C5: a pass reloads, replaces lastConfig or calls the callback only after
\* the file it renamed passed the configuration test; when the test has failed
\* after its retries the pass returns an error with no reload, lastConfig as it
\* was and no callback.
C5_ReloadOnlyAfterTest ==
    /\ (log.reloads > 0 \/ log.memo \/ log.cb) => (log.renamed /\ log.tested)
    /\ \A t \in Threads :
          (AtPass(t) /\ log.testFailed) =>
              /\ pc[t] = "ret"
              /\ log.result = "err"
              /\ log.reloads = 0
              /\ ~log.memo
              /\ ~log.cb
              /\ lastConfig = log.prevLast

C5_TestFailedAfterRetries ==
    \E t \in Threads : pc[t] = "ret" /\ log.renamed /\ log.testFailed

\* C6: when the test fails after the rename, the live file holds the previous
\* validated text again when the pass returns.
C6_PreviousBytesRestored ==
    \A t \in Threads :
        (/\ pc[t] = "ret"
         /\ log.renamed
         /\ log.testFailed
         /\ ~log.prevLast.isNil
         /\ log.prevLive = Whole(RenderNginxConfig(log.prevLast)))
            => live = log.prevLive

\* C7: a pass whose rendered text equals the last committed text writes
\* nothing, runs no test, no reload and no callback, and leaves lastConfig and
\* the live file as they were.
C7_UnchangedShortCircuit ==
    \A t \in Threads :
        (/\ PastCheck(t)
         /\ ~cfg[t].isNil
         /\ ~log.prevLast.isNil
         /\ RenderNginxConfig(cfg[t]) = RenderNginxConfig(log.prevLast))
            => /\ pc[t] = "ret"
               /\ log.result = "ok"
               /\ ~log.wrote /\ ~log.renamed /\ ~log.tested
               /\ log.reloads = 0
               /\ ~log.cb /\ ~log.memo
               /\ lastConfig = log.prevLast
               /\ live = log.prevLive

C7_PassWithSameText ==
    \E t \in Threads :
        /\ pc[t] = "ret"
        /\ log.same
        /\ ~log.prevLast.isNil
        /\ live.exists

\* C8: two runs of generation and rendering on the same snapshot produce the
\* same text, the order of the upstream and server blocks included.
C8_Deterministic == rpc = 2 => rout[1] = rout[2]

\* C9: the same snapshot applied in two consecutive passes causes at most one
\* reload of the child over both passes.
C9_AtMostOneReload ==
    \A t \in Threads :
        (pc[t] = "ret" /\ log.ran /\ log.sameSnap)
            => log.prevReloads + log.reloads <= 1

\* C10: when the manager reports "not running" at the reload step of a pass
\* that committed a changed config, the child is started.
C10_ChildStarted ==
    \A t \in Threads :
        (pc[t] = "ret" /\ log.renamed /\ log.tested /\ log.down)
            => child = "alive"

\* C11: every reload that reaches the child is issued by the Manager; a pass
\* never reloads the child by a path of its own.
C11_ReloadsThroughSupervisor == log.direct = 0

\* C12: Manager.Reload sends SIGHUP only under a set running flag and after
\* the configuration test of that call passed; a call refused because the
\* manager is not running or because the test failed sends nothing and leaves
\* the running flag as it found it.
C12_ReloadContract ==
    [][/\ hups' # hups =>
            \E c \in Callers :
                /\ call[c].op = "Reload"
                /\ call[c].ran0
                /\ call[c].tested
                /\ mgrRunning
                /\ call'[c].hup
       /\ \A c \in Callers :
            (/\ call'[c] # call[c]
             /\ call'[c].op = "Reload"
             /\ call'[c].res = "err"
             /\ call'[c].why \in {"notRunning", "test"})
                => /\ ~call'[c].hup
                   /\ hups' = hups
                   /\ delivered' = delivered
                   /\ mgrRunning' = mgrRunning
                   /\ mgrRunning = call'[c].ran0]_vars

C12_ReloadRefusedOnFailedTest ==
    \E c \in Callers :
        /\ call[c].op = "Reload"
        /\ call[c].res = "err"
        /\ call[c].why = "test"
        /\ mgrRunning
        /\ hups > 0

\* C13: once the child has exited and monitor has seen the exit, the running
\* flag is cleared, whatever the exit status (no Stop is called in the event
\* loop).
C13_ExitReported == (child = "dead" /\ waitPending = "none") => ~mgrRunning

\* C14: a forceful kill reaches the child only after the graceful signal could
\* not be sent or after the wait for the exit timed out.
C14_KillOnlyAfterGraceful ==
    \A d \in delivered : d.sig = "KILL" => d.why \in {"fallback", "timeout"}

\* C15: when Stop returns after its wait timed out, the child is dead, the
\* running flag is cleared and no handle is held.
C15_StoppedAfterTimeout ==
    [][\A c \in Callers :
          (mpc[c] = "stopKill" /\ mpc'[c] = "idle")
              => (child' = "dead" /\ ~mgrRunning' /\ ~cmdHeld')]_vars

\* C16: no two calls among Start, Reload and Stop are between their state
\* check and their return at the same time.
C16_MutualExclusion == Cardinality({c \in Callers : mpc[c] # "idle"}) <= 1

\* C17: after failure_threshold failed calls of Execute in a row, the next call
\* made before the timeout has passed is refused without invoking its
\* operation and leaves the breaker Open; made after the timeout it invokes the
\* operation, and a success leaves the breaker Closed with a zero count.
C17_BreakerLaw ==
    [][(ex'.n = ex.n + 1 /\ ex.streak >= cb.failureThreshold)
          => IF ~cb.expired
             THEN ex'.res = "open" /\ ex'.invoked = 0 /\ cb'.state = "Open"
             ELSE /\ ex'.invoked > 0
                  /\ ex'.res = "ok" => (cb'.state = "Closed" /\ cb'.failureCount = 0)]_vars

\* C18: a call admitted HalfOpen whose operation fails puts the breaker back
\* in Open, for every failure threshold.
C18_HalfOpenFailureReopens ==
    [][(ex'.n = ex.n + 1 /\ ex'.half /\ ex'.res = "err") => cb'.state = "Open"]_vars

\* The invocations of the last call's operation that return nil.
Successes == {i \in 1..(ex.retry + 1) : ex.outs[i]}

\* C19: HandleWithRetry invokes its operation up to the first success or
\* retryAttempts+1 times, returns nil exactly when an invocation succeeded, and
\* else returns the error of the last invocation; a call the breaker refuses
\* makes no invocation and returns the breaker's error.
C19_RetryContract ==
    ex.kind = "retry" =>
        IF ex.res = "open"
        THEN ex.invoked = 0 /\ ex.cause = 0
        ELSE /\ ex.invoked \in 1..(ex.retry + 1)
             /\ \A i \in 1..(ex.invoked - 1) : ~ex.outs[i]
             /\ (ex.res = "ok") = ex.outs[ex.invoked]
             /\ ex.res = "ok" => ex.cause = 0
             /\ ex.res = "err" => (ex.invoked = ex.retry + 1 /\ ex.cause = ex.invoked)
             /\ (ex.res = "ok") = (\E i \in Successes : i <= ex.invoked)

C19_SuccessOnSecondInvocation ==
    /\ ex.kind = "retry"
    /\ ex.retry = MaxRetry
    /\ ex.res = "ok"
    /\ ex.invoked = 2
    /\ ex.outs[MaxRetry + 1]

\* C20: after three passes in a row failed at the test or at the reload step
\* the reconciler is in its cool-down: the breaker that guards the write, the
\* test and the reload of a triggered pass is Open, so that such a pass does
\* none of them.
C20_CoolDownAfterThreeFailures ==
    (prevPass.failed >= 3 /\ pc["loop"] = "select") => cb.state = "Open"

\* C22: when writeConfigFile has returned an error (the write of the temp file
\* failed, possibly after a partial write, or the rename failed), no file exists
\* at nginxConfigPath + ".tmp".
C22_NoTempAfterFailedCommit == log.commitErr => ~tmp.exists

\* C21: a task that has panicked has not ended the controller process, and its
\* panic was recovered and reported as a Critical error.
C21_PanicContained ==
    \A t \in Tasks :
        goroutine[t] \in {"panicked", "recovered"} =>
            process = "running" /\ t \in criticals

\* C30: Pool.Stop has returned only if the pool's context is cancelled and no
\* goroutine started with GoCtx is still running, whether it returned or
\* panicked; and while Stop waits with every such goroutine ended, the
\* WaitGroup counter is zero, so that Wait returns.
C30_StopWaitsForAll ==
    /\ pool.stop = "returned" =>
          pool.cancelled /\ \A t \in PoolTasks : goroutine[t] # "running"
    /\ (pool.stop = "waiting" /\ \A t \in PoolTasks : goroutine[t] # "running") =>
          pool.waitGroup = 0

\* Stop has returned after a goroutine of the pool ended by panicking and
\* another returned.
C30_StoppedAfterPanic ==
    /\ pool.stop = "returned"
    /\ goroutine["provider"] = "recovered"
    /\ goroutine["worker"] = "returned"

\* The Status that goes with k failed probes in a row.
StatusFor(k) ==
    IF k >= UnhealthyAt THEN "Unhealthy"
    ELSE IF k >= DegradedAt THEN "Degraded"
    ELSE "Healthy"

\* C26: the Status of every registered component is the one that goes with its
\* failed probes since the last success or registration (Healthy below 2,
\* Degraded from 2 to 4, Unhealthy from 5 on), and its ErrorCount is that
\* number: a successful probe leaves the count at 0 and the Status Healthy.
C26_StatusFollowsStreak ==
    \A n \in DOMAIN components :
        /\ components[n].Status = StatusFor(streak[n])
        /\ components[n].ErrorCount = streak[n]

\* One component is Unhealthy after five failed probes in a row while another
\* is Degraded after two.
C26_UnhealthyAndDegraded ==
    \E n, m \in DOMAIN components :
        /\ components[n].Status = "Unhealthy" /\ streak[n] = UnhealthyAt
        /\ components[m].Status = "Degraded" /\ streak[m] = DegradedAt

\* C27: the answer of GET /health is the worst state over the registered
\* components as they were when it was computed: 503 and unhealthy exactly when
\* one was Unhealthy, otherwise 200 and degraded exactly when one was Degraded,
\* otherwise 200 and healthy.
C27_WorstStateReported ==
    response.code # 0 =>
        /\ (response.code = 503 /\ response.status = "unhealthy")
              <=> "Unhealthy" \in response.seen
        /\ (response.code = 200 /\ response.status = "degraded")
              <=> ("Unhealthy" \notin response.seen /\ "Degraded" \in response.seen)
        /\ (response.code = 200 /\ response.status = "healthy")
              <=> response.seen \subseteq {"Healthy"}
        /\ response.code \in {200, 503}

\* /health answered 200 and degraded with one component Degraded and the other
\* Healthy.
C27_DegradedReported ==
    /\ response.code = 200
    /\ response.status = "degraded"
    /\ response.seen = {"Healthy", "Degraded"}

\* The path contains "..", starts with /etc/ or /var/, or ends in something
\* other than .conf or .txt.
Unsafe(p) ==
    \/ \E i \in 1..Len(p) : p[i] = ".."
    \/ Len(p) >= 3 /\ p[1] = "/" /\ p[2] \in {"etc", "var"} /\ p[3] = "/"
    \/ p[Len(p)] \notin {".conf", ".txt"}

\* C25: a loader call (DownloadSnippet or the FastCGI parameter-file loader)
\* for a path that contains "..", starts with /etc/ or /var/ or has a suffix
\* outside the allowlist returned an error, did not look in the cache and made
\* no runtime call.
C25_UnsafePathRejected ==
    (fetched.op # "none" /\ Unsafe(fetched.path)) =>
        fetched.res = "err" /\ ~fetched.cacheRead /\ ~fetched.copied

\* The parameter-file loader rejected a path under /etc/ that ends in .conf
\* while the cache held files.
C25_RejectedWithCacheFilled ==
    /\ fetched.op = "loadParamsFromFile"
    /\ fetched.res = "err"
    /\ HasPrefix(fetched.path, <<"/", "etc", "/">>)
    /\ HasSuffix(fetched.path, ".conf")
    /\ cache # {}

\* The containers of the fixture whose labels fail extraction ("bad": port
\* 99999) or validation ("rel": a path without the leading slash).
Invalid == {"bad", "rel"}

\* The containers that have an upstream block, and those that have a location,
\* in a rendered text.
UpstreamsIn(text) == {text[i][2][3] : i \in {k \in 1..Len(text) : text[k][1] = "upstream"}}
LocationsIn(text) ==
    {text[i][2].Upstream[3] : i \in {k \in 1..Len(text) : text[k][1] = "location"}}

\* C23: in a pass in which no call fails, the container set is the labelled
\* containers that were running at the enumeration without the invalid ones,
\* the pass does not return an error, and the config it commits has an upstream
\* and a location for exactly those containers.
C23_InvalidSkipped ==
    (faults = 0 /\ log.ran /\ AtPass("loop")) =>
        LET valid == {c \in log.listed : hasNginxLabels(c)} \ Invalid
        IN  /\ Range(containers) = valid
            /\ pc["loop"] = "ret" => log.result = "ok"
            /\ log.renamed => /\ UpstreamsIn(live.text) = valid
                              /\ LocationsIn(live.text) = valid

\* A pass enumerated the invalid "bad" next to the valid "blog", committed a
\* config with blog's route, reloaded and returned nil.
C23_ValidNextToInvalid ==
    /\ pc["loop"] = "ret"
    /\ faults = 0
    /\ log.listed = {"bad", "blog"}
    /\ log.renamed
    /\ log.reloads >= 1
    /\ log.result = "ok"
    /\ UpstreamsIn(live.text) = {"blog"}

\* C24: a download of a snippet or of a parameter file that fails does not make
\* GenerateNginxConfig, and with it the pass, return an error.
C24_LoadFailureTolerated == log.loadErr => ~log.generateErr

C29_AddedAfterInspectError ==
    (/\ pc["loop"] = "select"
     /\ events = <<>>
     /\ subscribed
     /\ log.inspectErr # "none"
     /\ log.inspectErr \in running
     /\ log.inspectErr \in Range(ListContainers({log.inspectErr}, {})))
    => log.inspectErr \in Range(containers)

\* defaults <- label parameters <- file parameters
Precedence(labelParams, fileParams) ==
    Assign(Assign(DefaultPHPParams, labelParams), fileParams)

\* C31: the map a successful LoadFastCGIParams returns is the defaults
\* overridden by the label parameters, overridden by the file parameters; it
\* holds SCRIPT_FILENAME and REQUEST_METHOD and ValidateFastCGIParams accepts it.
C31_MergePrecedence ==
    fcgi.res = "ok" =>
        /\ fcgi.params = Precedence(fcgi.labels, fcgi.file)
        /\ {"SCRIPT_FILENAME", "REQUEST_METHOD"} \subseteq DOMAIN fcgi.params
        /\ ValidateFastCGIParams(fcgi.params)

\* A label and the file set SCRIPT_FILENAME to different values, the label
\* alone sets REQUEST_METHOD, and the load has succeeded.
C31_FileOverLabelOverDefault ==
    /\ fcgi.res = "ok"
    /\ fcgi.hasFile
    /\ "SCRIPT_FILENAME" \in DOMAIN fcgi.labels \cap DOMAIN fcgi.file
    /\ fcgi.labels["SCRIPT_FILENAME"] # fcgi.file["SCRIPT_FILENAME"]
    /\ "REQUEST_METHOD" \in DOMAIN fcgi.labels \ DOMAIN fcgi.file
    /\ "QUERY_STRING" \notin DOMAIN fcgi.labels \cup DOMAIN fcgi.file

\* The location of container c in a rendered text, if it has one.
LocationsOf(text, c) ==
    {text[i][2] : i \in {k \in 1..Len(text) :
                            text[k][1] = "location" /\ text[k][2].Upstream[3] = c}}

\* C32: in a pass in which no call fails, every enumerated container whose
\* backend-protocol label is FCGI in any letter case is in the container set,
\* and the config the pass commits has a FastCGI location for it.
C32_AnyCaseFastCGI ==
    (faults = 0 /\ log.ran /\ AtPass("loop")) =>
        \A c \in log.listed :
            ToUpper(Labels[c].backend) = "FCGI" =>
                /\ c \in Range(containers)
                /\ log.renamed =>
                      /\ LocationsOf(live.text, c) # {}
                      /\ \A l \in LocationsOf(live.text, c) : l.FastCGI

\* C33: a call of the parameter-file loader for a path that ends in .params,
\* contains no ".." and is not under /etc/ or /var/ gets past the path check:
\* it looks for the cache file, and fails only if the runtime's copy fails.
C33_ParamsSuffixAccepted ==
    (/\ fetched.op = "loadParamsFromFile"
     /\ HasSuffix(fetched.path, ".params")
     /\ ~Contains(fetched.path, "..")
     /\ ~HasPrefix(fetched.path, <<"/", "etc", "/">>)
     /\ ~HasPrefix(fetched.path, <<"/", "var", "/">>))
    => /\ fetched.cacheRead
       /\ fetched.res = "err" => fetched.copied

\* The event at the head of the stream is one handleDockerEvent has nothing to
\* do for: a start of a container without a label of the reserved prefix, a
\* stop, die or destroy of a container that is not in the set, or an event of
\* another action.
Irrelevant(e) ==
    \/ e.action = "start" /\ ~hasNginxLabels(e.id)
    \/ e.action \in {"stop", "die", "destroy"} /\ e.id \notin Range(containers)
    \/ e.action \notin {"start", "stop", "die", "destroy"}

\* C34: handling such an event leaves the container set, lastConfig, the live
\* file and the temp file as they are and starts no pass (no enumeration, no
\* configuration test, no reload): the loop is back at its select.
C34_IrrelevantEventIsNoOp ==
    [][(/\ pc["loop"] = "select"
        /\ events # <<>>
        /\ events' = Tail(events)
        /\ Irrelevant(Head(events)))
          => /\ containers' = containers
             /\ lastConfig' = lastConfig
             /\ live' = live
             /\ tmp' = tmp
             /\ pc'["loop"] = "select"
             /\ log'.reloads = log.reloads /\ log'.tested = log.tested
             /\ log'.ran = log.ran]_vars

\* web is in the set and committed, and the one event that followed its start,
\* an event of another action for it, has been handled without a pass.
C34_HandledWithoutPass ==
    /\ pc["loop"] = "select"
    /\ events = <<>>
    /\ running = {"web"}
    /\ ops = 2
    /\ containers = <<"web">>
    /\ prevPass.ran /\ prevPass.reloads = 1
    /\ log = EmptyLog
    /\ UpstreamsIn(live.text) = {"web"}

\* How often location x occurs in the slice s.
Count(s, x) == Cardinality({i \in 1..Len(s) : s[i] = x})

\* C35: the slice sortLocationsByPriority returns is a permutation of its
\* input; of two consecutive locations the first has the higher priority, or
\* the same priority and a path at least as long; the slice of the caller is
\* what it was.
C35_SortedPermutation ==
    sorting.done =>
        /\ Len(sorting.sorted) = Len(sorting.input)
        /\ \A x \in SortLocations : Count(sorting.sorted, x) = Count(sorting.input, x)
        /\ \A i \in 1..(Len(sorting.sorted) - 1) :
              \/ sorting.sorted[i].Priority > sorting.sorted[i + 1].Priority
              \/ /\ sorting.sorted[i].Priority = sorting.sorted[i + 1].Priority
                 /\ PathLen(sorting.sorted[i].Path) >= PathLen(sorting.sorted[i + 1].Path)
        /\ sorting.locations = sorting.input

\* A slice of three locations in ascending order of priority, two of them of
\* the same priority with the shorter path first, has been sorted.
C35_ReversedInput ==
    /\ sorting.done
    /\ Len(sorting.input) = 3
    /\ sorting.input[1].Priority < sorting.input[2].Priority
    /\ sorting.input[2].Priority = sorting.input[3].Priority
    /\ PathLen(sorting.input[2].Path) < PathLen(sorting.input[3].Path)
    /\ sorting.sorted # sorting.input

\* C36: when no call fails, the goroutine that runs Start is never at the
\* Execute of updateNginxConfig's HandleWithRetry while the Execute of Start's
\* own HandleWithRetry holds the lock of the same breaker: the initial load
\* does not wait for a lock its own goroutine holds.
C36_StartNotBlockedOnOwnLock ==
    faults = 0 => ~(pc["start"] = "writeTemp" /\ cbHolder = "start")

\* C37: a Reset called by Handle never waits for the breaker's lock while the
\* Execute of the enclosing HandleWithRetry holds it: the goroutine of a
\* HandleWithRetry call is never at Reset inside its own operation.
C37_ResetNotBlockedByExecute == ~(eh.pc = "reset" /\ eh.lock = "Execute")

\* C38: the handler of /health/detailed is never inside its own read lock,
\* about to take the read lock of GetOverallHealth, while a writer is inside
\* Lock(): in that state the writer waits for the handler's read lock and the
\* handler's second RLock waits for the writer.
C38_NoNestedReadLockDeadlock == ~(hmu.handler = "outer" /\ hmu.waiting # {})

\* C39: a pass is skipped as unchanged only when both configs were rendered
\* without error; a pass whose render failed is never skipped.
C39_SkipOnlyOnRenderedEqual ==
    cmp.res = "skipped" => ~cmp.errA /\ ~cmp.errB

\* C40: a Start that finds `running` set returns the "already running" error
\* and leaves the running flag, the child and the handle as they are; a Start
\* that spawns a child does so only when no child of the manager is alive, so
\* at most one child is alive at any time.
C40_AtMostOneChild ==
    [][\A c \in Callers :
          (mpc[c] = "start" /\ mpc'[c] = "idle") =>
             IF mgrRunning
             THEN /\ call'[c].res = "err"
                  /\ call'[c].why = "running"
                  /\ UNCHANGED <<mgrRunning, child, waitPending, cmdHeld>>
             ELSE call'[c].res = "ok" => child # "alive" /\ child' = "alive"]_vars

\* A Start was refused as already running after an earlier Start spawned the
\* child and a Reload signalled it; the child is alive.
C40_RefusedWhileRunning ==
    /\ mgrRunning
    /\ child = "alive"
    /\ hups = 1
    /\ call["hook"].op = "Start"
    /\ call["hook"].res = "err"
    /\ call["hook"].why = "running"
    /\ call["main"].op = "Reload"
    /\ call["main"].res = "ok"

====
